---- MODULE Spec2Model ----
(***************************************************************************)
(* Model of biodb_analyzer's schema-validated analysis cache               *)
(* (src/src/biodb_analyzer/ai/cache.py, class AnalysisCache) together with *)
(* the part of SchemaValidator that AnalysisCache.store calls.             *)
(*                                                                         *)
(* The cache directory is a map from cache keys to files.  A file carries  *)
(* its text, its modification time (st_mtime) and its access time          *)
(* (st_atime).  Strings are sequences of one-character strings.  Sizes are *)
(* counted in MiB, the unit in which _check_cache_size compares them;      *)
(* times are counted in whole clock units.                                 *)
(*                                                                         *)
(* Specifications:                                                         *)
(*   Spec      one caller of a cache: get, store, size enforcement, clear  *)
(*   LruSpec   size enforcement on directories with distinct access times  *)
(*   OrchSpec  the requests of an OllamaAnalyzer (ai/ollama.py)            *)
(*   OrchFair  OrchSpec with methods and backend calls that end            *)
(*   ConcSpec  two callers inside the methods of one cache at a time       *)
(*   KeySpec   _get_cache_key on pairs of argument sets                    *)
(*   HashSpec  schema loading (ai/schema_validator.py), the schema hash    *)
(*             and the key of analyze_database for two database files      *)
(*   ScoreSpec the reference count and confidence score of a text          *)
(*   FragSpec  extraction and validation of the fragments of a text        *)
(*   ConnSpec  a DatabaseConnection (database/connection.py) and its user  *)
(*   RoundSpec one caller of a cache that remembers what it stored         *)
(*   PayloadSpec one caller and the dictionary it hands to store           *)
(*   EvictSpec size enforcement on every directory under every budget      *)
(*   RepeatFair an analyzer asked for analyze_database again and again     *)
(*   SampleSpec get_table_size and get_sample_size on tables of many sizes *)
(***************************************************************************)
EXTENDS Integers, Sequences, FiniteSets, TLC

VARIABLES
    files,   \* the cache directory: cache key -> file
    now,     \* time.time()
    stats,   \* AnalysisCache._cache_stats
    last,    \* the operation that ran last, its key and what it returned
    calls,   \* how many get calls completed, and how many returned an entry
    req,     \* the request an OllamaAnalyzer is serving, and how far it got
    thr,     \* the callers that are inside a method of one shared cache
    calc,    \* the arguments and the value of a function being evaluated
    conn,    \* a DatabaseConnection, the files it can open and its caller
    cfg      \* the arguments an AnalysisCache was constructed with

vars == <<files, now, stats, last, calls, req, thr, calc, conn, cfg>>

---------------------------------------------------------------------------
(* Bounds of the model and configuration of the store.                     *)

\* the clock runs from 0 to MaxTime
MaxTime == 2
\* at most MaxGets lookups are issued (caps the hits and misses counters)
MaxGets == 2
\* at most MaxEvictions evictions are counted (caps the evictions counter)
MaxEvictions == 2
\* self.max_age_seconds as the store is configured here, in clock units
max_age_seconds == 1
---------------------------------------------------------------------------
(* Values.                                                                 *)

\* Python's None
None == [none |-> TRUE]

\* self.confidence_threshold in hundredths: the default 0.95 of the
\* constructor, or what the analyzer that owns the cache configured
confidence_threshold == IF req = None THEN 95 ELSE req.threshold

\* self.max_size_mb, in MiB: 2 as the store is configured here, or the
\* max_size_mb argument the store was constructed with
max_size_mb == IF cfg = None THEN 2 ELSE cfg.max_size_mb

\* the key recorded for an operation that takes none
NoKey == <<>>

\* the tables of the loaded schema (SchemaValidator.schema['tables'])
SchemaTables == {<<"g">>}

\* hashlib.sha256(str(schema_validator.schema)) of the one loaded schema
SchemaHash == <<"h">>

\* the analysis type the orchestrator passes ('database_analysis')
AnalysisType == <<"d">>

\* the prompts callers pass to get and store
Prompts == {<<"x">>, <<"X", " ", "g">>}

\* the response texts of results; a response's length is its size on disk
Responses == {<<"a">>, <<"b", "b">>}

\* the result dictionaries callers hand to store: from the orchestrator
\* with a confidence, from another caller without one, and one that holds
\* a value json cannot encode (json.dump raises TypeError part-way)
Results ==
    {[response |-> <<"a">>, confidence |-> 95, schema_valid |-> TRUE],
     [response |-> <<"a">>, confidence |-> 90, schema_valid |-> TRUE],
     [response |-> <<"b", "b">>, schema_valid |-> FALSE],
     [response |-> <<"a">>, confidence |-> 95, schema_valid |-> TRUE,
      handle |-> "object"]}

---------------------------------------------------------------------------
(* Strings.                                                                *)

Lower(s) ==
    [i \in 1..Len(s) |->
        CASE s[i] = "X" -> "x"
          [] s[i] = "G" -> "g"
          [] s[i] = "T" -> "t"
          [] OTHER -> s[i]]

RECURSIVE SplitFrom(_, _, _)
\* str.split(): the maximal runs of non-blank characters
SplitFrom(s, i, word) ==
    IF i > Len(s)
    THEN IF word = <<>> THEN <<>> ELSE <<word>>
    ELSE IF s[i] = " "
         THEN IF word = <<>>
              THEN SplitFrom(s, i + 1, <<>>)
              ELSE <<word>> \o SplitFrom(s, i + 1, <<>>)
         ELSE SplitFrom(s, i + 1, Append(word, s[i]))

Split(s) == SplitFrom(s, 1, <<>>)

---------------------------------------------------------------------------
(* SchemaValidator.                                                        *)

ExtractTablesFromAnalysis(analysis) ==
    SelectSeq(Split(Lower(analysis)), LAMBDA word : word \in SchemaTables)

ValidateAnalysis(analysis) ==
    \A i \in 1..Len(ExtractTablesFromAnalysis(analysis)) :
        ExtractTablesFromAnalysis(analysis)[i] \in SchemaTables

---------------------------------------------------------------------------
(* Keys.                                                                   *)

\* hashlib.sha256(...).hexdigest(): the digest is taken to be collision
\* free, so a digest is represented by the text it was computed from
Sha256(s) == s

GetCacheKey(prompt, analysis_type, schema_hash) ==
    Sha256(analysis_type \o <<"_">> \o schema_hash \o <<"_">> \o prompt)

KeyOf(prompt) == GetCacheKey(prompt, AnalysisType, SchemaHash)

Keys == {KeyOf(p) : p \in Prompts}

---------------------------------------------------------------------------
(* Files: JSON text, sizes, times.                                         *)

\* whether json.dump can encode every value of the document
Serialisable(doc) == "handle" \notin DOMAIN doc

\* json.dump(result, f): the complete text of the document
JsonDump(doc) == [doc |-> doc, complete |-> TRUE]

\* what a dump that stopped part-way left in the file
PartialDump(doc) == [doc |-> doc, complete |-> FALSE]

\* json.load(f): the document, or a raised exception for a text that is
\* not one complete document
JsonLoad(text) ==
    IF text.complete
    THEN [ok |-> TRUE, value |-> text.doc]
    ELSE [ok |-> FALSE, value |-> None]

\* f.stat().st_size, in MiB: a complete document takes the length of its
\* response, a part-written one takes one unit
StSize(file) ==
    IF file.text.complete THEN Len(file.text.doc.response) ELSE 1

\* the file a write at time t creates
NewFile(text, t) == [text |-> text, mtime |-> t, atime |-> t]

\* open(cache_file, 'w') and a write on a file that exists: the text and
\* st_mtime change, st_atime does not
Rewritten(file, text, t) == [text |-> text, mtime |-> t, atime |-> file.atime]

\* a read at time t: whether st_atime moves is up to the mount options of
\* the file system (strictatime, relatime, noatime)
ReadAt(file, t, touch) ==
    IF touch THEN [file EXCEPT !.atime = t] ELSE file

Remove(fs, k) == [j \in DOMAIN fs \ {k} |-> fs[j]]

Put(fs, k, file) ==
    [j \in DOMAIN fs \cup {k} |-> IF j = k THEN file ELSE fs[j]]

RECURSIVE SumSizes(_, _)
SumSizes(fs, ks) ==
    IF ks = {} THEN 0
    ELSE LET k == CHOOSE j \in ks : TRUE
         IN StSize(fs[k]) + SumSizes(fs, ks \ {k})

\* sum(f.stat().st_size for f in cache_dir.glob("*.json")) / (1024 * 1024)
TotalSizeMb(fs) == SumSizes(fs, DOMAIN fs)

---------------------------------------------------------------------------
(* AnalysisCache._check_cache_size.                                        *)

\* the listing left as glob yields it, in any order
SortedByAtimeUnsorted(fs) ==
    {ord \in [1..Cardinality(DOMAIN fs) -> DOMAIN fs] :
        \A i, j \in DOMAIN ord : i # j => ord[i] # ord[j]}

\* sorted(glob, key=st_atime): every listing of the directory in ascending
\* st_atime; files with equal st_atime come in the order glob yields them
SortedByAtime(fs) ==
    {ord \in [1..Cardinality(DOMAIN fs) -> DOMAIN fs] :
        /\ \A i, j \in DOMAIN ord : i # j => ord[i] # ord[j]
        /\ \A i, j \in DOMAIN ord : i < j => fs[ord[i]].atime <= fs[ord[j]].atime}

RECURSIVE EvictLoopAtBudget(_, _, _)
\* the loop condition taken as >= : the loop goes on at the budget itself,
\* where a budget of 0 leaves it popping from a list it has emptied
EvictLoopAtBudget(fs, ord, n) ==
    IF TotalSizeMb(fs) >= max_size_mb
    THEN IF ord = <<>>
         THEN [files |-> fs, evicted |-> n, raised |-> TRUE]
         ELSE EvictLoopAtBudget(Remove(fs, Head(ord)), Tail(ord), n + 1)
    ELSE [files |-> fs, evicted |-> n, raised |-> FALSE]

RECURSIVE EvictLoop(_, _, _)
\* while current_size_mb > max_size_mb: files.pop(0).unlink(); evictions += 1
\* (pop(0) on an empty list raises IndexError)
EvictLoop(fs, ord, n) ==
    IF TotalSizeMb(fs) > max_size_mb
    THEN IF ord = <<>>
         THEN [files |-> fs, evicted |-> n, raised |-> TRUE]
         ELSE EvictLoop(Remove(fs, Head(ord)), Tail(ord), n + 1)
    ELSE [files |-> fs, evicted |-> n, raised |-> FALSE]

\* the comparison with the budget taken as >= : a store filled exactly to
\* its budget loses its least recently accessed entry
CheckCacheSizeAtBudget(fs, ord) ==
    IF TotalSizeMb(fs) >= max_size_mb /\ ord # <<>>
    THEN EvictLoop(Remove(fs, Head(ord)), Tail(ord), 1)
    ELSE [files |-> fs, evicted |-> 0, raised |-> FALSE]

\* the outcome of _check_cache_size on directory fs with the listing ord
CheckCacheSize(fs, ord) ==
    IF TotalSizeMb(fs) > max_size_mb
    THEN EvictLoop(fs, ord, 0)
    ELSE [files |-> fs, evicted |-> 0, raised |-> FALSE]

\* the statistics after _check_cache_size returned normally
StatsAfterCheck(st, res) ==
    [st EXCEPT !.evictions = @ + res.evicted,
               !.current_size_mb = TotalSizeMb(res.files)]

---------------------------------------------------------------------------
(* AnalysisCache._is_cache_valid.                                          *)

\* the age check taken as >= : a record expires one clock unit early
IsCacheValidExpiresEarly(fs, k, t) ==
    IF k \notin DOMAIN fs THEN FALSE
    ELSE IF t - fs[k].mtime >= max_age_seconds THEN FALSE
    ELSE IF ~JsonLoad(fs[k].text).ok THEN FALSE
    ELSE IF /\ "confidence" \in DOMAIN JsonLoad(fs[k].text).value
            /\ JsonLoad(fs[k].text).value.confidence < confidence_threshold
         THEN FALSE
         ELSE TRUE

IsCacheValid(fs, k, t) ==
    IF k \notin DOMAIN fs THEN FALSE
    ELSE IF t - fs[k].mtime > max_age_seconds THEN FALSE
    ELSE IF ~JsonLoad(fs[k].text).ok THEN FALSE
    ELSE IF /\ "confidence" \in DOMAIN JsonLoad(fs[k].text).value
            /\ JsonLoad(fs[k].text).value.confidence < confidence_threshold
         THEN FALSE
         ELSE TRUE

\* whether _is_cache_valid gets as far as opening and reading the file
ReadsFile(fs, k, t) == k \in DOMAIN fs /\ t - fs[k].mtime <= max_age_seconds

---------------------------------------------------------------------------
(* State.                                                                  *)

\* the files a part-written dump of an earlier process left behind
LeftOverFiles ==
    {NewFile(PartialDump([response |-> r, confidence |-> 95,
                          schema_valid |-> TRUE]), 0) : r \in {<<"b", "b">>}}

\* the cache directory survives the process: mkdir(exist_ok=True)
InitDirs ==
    UNION {[ks -> LeftOverFiles] : ks \in SUBSET Keys}

InitStats ==
    [hits |-> 0, misses |-> 0, evictions |-> 0, current_size_mb |-> 0,
     invalidations |-> 0]

Done(op, k, ret) == [op |-> op, key |-> k, ret |-> ret]

\* no analyzer, no second caller and no evaluation: the store on its own
StoreAlone ==
    req = None /\ thr = None /\ calc = None /\ conn = None /\ cfg = None

Init ==
    /\ files \in InitDirs
    /\ now = 0
    /\ stats = InitStats
    /\ last = Done("init", NoKey, None)
    /\ calls = [gets |-> 0, returned |-> 0]
    /\ StoreAlone

---------------------------------------------------------------------------
(* AnalysisCache.get.                                                      *)

\* the directory after get(prompt) at time t
GetFiles(fs, k, t, touch) ==
    IF IsCacheValid(fs, k, t)
    THEN IF JsonLoad(fs[k].text).ok
         THEN Put(fs, k, ReadAt(fs[k], t, touch))
         ELSE Remove(fs, k)
    ELSE IF ReadsFile(fs, k, t)
         THEN Put(fs, k, ReadAt(fs[k], t, touch))
         ELSE fs

\* what get(prompt) returns at time t
GetResult(fs, k, t) ==
    IF IsCacheValid(fs, k, t) /\ JsonLoad(fs[k].text).ok
    THEN JsonLoad(fs[k].text).value
    ELSE None

\* a lookup of a key with no file counted as nothing
GetStatsSkipsAbsent(st, fs, k, t) ==
    IF IsCacheValid(fs, k, t) /\ JsonLoad(fs[k].text).ok
    THEN [st EXCEPT !.hits = @ + 1]
    ELSE IF k \in DOMAIN fs THEN [st EXCEPT !.misses = @ + 1] ELSE st

\* the statistics after get(prompt) at time t
GetStats(st, fs, k, t) ==
    IF IsCacheValid(fs, k, t) /\ JsonLoad(fs[k].text).ok
    THEN [st EXCEPT !.hits = @ + 1]
    ELSE [st EXCEPT !.misses = @ + 1]

Get(prompt, touch) ==
    /\ calls.gets < MaxGets
    /\ files' = GetFiles(files, KeyOf(prompt), now, touch)
    /\ stats' = GetStats(stats, files, KeyOf(prompt), now)
    /\ last' = Done("get", KeyOf(prompt),
                    GetResult(files, KeyOf(prompt), now))
    /\ calls' = [gets |-> calls.gets + 1,
                 returned |-> calls.returned +
                     IF GetResult(files, KeyOf(prompt), now) = None
                     THEN 0 ELSE 1]
    /\ UNCHANGED now

---------------------------------------------------------------------------
(* AnalysisCache.store.                                                    *)

\* result['schema_valid'] = schema_validator.validate_analysis(prompt)
Stamped(result, prompt) ==
    [result EXCEPT !.schema_valid = ValidateAnalysis(prompt)]

\* with open(cache_file, 'w') as f: json.dump(result, f, indent=2)
Written(fs, k, doc, t) ==
    IF k \in DOMAIN fs
    THEN Put(fs, k, Rewritten(fs[k], JsonDump(doc), t))
    ELSE Put(fs, k, NewFile(JsonDump(doc), t))

\* except Exception: if cache_file.exists(): cache_file.unlink()
Aborted(fs, k) == Remove(fs, k)

\* the two steps in the other order: enforce, then write
StoreOutcomeEnforceFirst(fs, k, doc, t, ord) ==
    LET res == CheckCacheSize(fs, SelectSeq(ord, LAMBDA j : j \in DOMAIN fs))
    IN [res EXCEPT !.files = Written(res.files, k, doc, t)]

\* the try block of store, the write completing: write, then enforce
StoreOutcome(fs, k, doc, t, ord) ==
    CheckCacheSize(Written(fs, k, doc, t), ord)

StoreOk(prompt, result) ==
    \E ord \in SortedByAtime(Written(files, KeyOf(prompt),
                                     Stamped(result, prompt), now)) :
        LET res == StoreOutcome(files, KeyOf(prompt),
                                Stamped(result, prompt), now, ord)
        IN /\ stats.evictions + res.evicted <= MaxEvictions
           /\ files' = IF res.raised THEN Aborted(res.files, KeyOf(prompt))
                                    ELSE res.files
           /\ stats' = IF res.raised
                       THEN [stats EXCEPT !.evictions = @ + res.evicted]
                       ELSE StatsAfterCheck(stats, res)
           /\ last' = Done("store", KeyOf(prompt), None)
           /\ UNCHANGED <<now, calls>>

\* json.dump raises part-way: the except branch removes the file
StoreFailed(prompt, result) ==
    /\ files' = Aborted(files, KeyOf(prompt))
    /\ last' = Done("store_failed", KeyOf(prompt), None)
    /\ UNCHANGED <<now, stats, calls>>

Store(prompt, result) ==
    IF Serialisable(result)
    THEN StoreOk(prompt, result)
    ELSE StoreFailed(prompt, result)

---------------------------------------------------------------------------
(* AnalysisCache._check_cache_size called on its own, AnalysisCache.clear, *)
(* and the clock.                                                          *)

EnforceSizeBudget ==
    \E ord \in SortedByAtime(files) :
        LET res == CheckCacheSize(files, ord)
        IN /\ ~res.raised
           /\ stats.evictions + res.evicted <= MaxEvictions
           /\ files' = res.files
           /\ stats' = StatsAfterCheck(stats, res)
           /\ last' = Done("enforce", NoKey, None)
           /\ UNCHANGED <<now, calls>>

\* every counter reset, hits and misses too
ClearedStatsAll(st) ==
    [st EXCEPT !.current_size_mb = 0, !.evictions = 0, !.invalidations = 0,
               !.hits = 0, !.misses = 0]

\* the statistics after clear()
ClearedStats(st) ==
    [st EXCEPT !.current_size_mb = 0, !.evictions = 0, !.invalidations = 0]

Clear ==
    /\ files' = [k \in {} |-> None]
    /\ stats' = ClearedStats(stats)
    /\ last' = Done("clear", NoKey, None)
    /\ UNCHANGED <<now, calls>>

Tick ==
    /\ now < MaxTime
    /\ now' = now + 1
    /\ last' = Done("tick", NoKey, None)
    /\ UNCHANGED <<files, stats, calls>>

Next ==
    \/ \E prompt \in Prompts, touch \in BOOLEAN :
          Get(prompt, touch) /\ UNCHANGED <<req, thr, calc, conn, cfg>>
    \/ \E prompt \in Prompts, result \in Results :
          Store(prompt, result) /\ UNCHANGED <<req, thr, calc, conn, cfg>>
    \/ EnforceSizeBudget /\ UNCHANGED <<req, thr, calc, conn, cfg>>
    \/ Clear /\ UNCHANGED <<req, thr, calc, conn, cfg>>
    \/ Tick /\ UNCHANGED <<req, thr, calc, conn, cfg>>

Spec == Init /\ [][Next]_vars

---------------------------------------------------------------------------
(* Vocabulary of the properties.                                           *)

\* this step is a completed get on key k
GetStep(k) == calls'.gets = calls.gets + 1 /\ last'.key = k

\* the stored record for k has exceeded max_age at time t
TooOld(fs, k, t) == t - fs[k].mtime > max_age_seconds

\* the stored record for k parses and carries a confidence
HasConfidence(fs, k) ==
    /\ JsonLoad(fs[k].text).ok
    /\ "confidence" \in DOMAIN JsonLoad(fs[k].text).value

\* the stored record for k carries a confidence below the threshold
LowConfidence(fs, k) ==
    /\ HasConfidence(fs, k)
    /\ JsonLoad(fs[k].text).value.confidence < confidence_threshold

\* the stored record for k is usable at time t: within max_age and with a
\* confidence at or above the threshold
Usable(fs, k, t) ==
    /\ k \in DOMAIN fs
    /\ ~TooOld(fs, k, t)
    /\ HasConfidence(fs, k)
    /\ ~LowConfidence(fs, k)

---------------------------------------------------------------------------
(* C1  Confidence gate: every entry get returns carries a confidence that  *)
(* is at least confidence_threshold; a record with no confidence value is  *)
(* not returned either.                                                    *)
C1_ConfidenceGate ==
    (last.op = "get" /\ last.ret # None) =>
        /\ "confidence" \in DOMAIN last.ret
        /\ last.ret.confidence >= confidence_threshold

(* C2  Age expiry: a get on a stored record that carries a confidence at   *)
(* or above the threshold returns that record exactly when its age         *)
(* now - mtime is at most max_age, and returns absent when the age is      *)
(* larger; no get moves the write time (and with it the expiry time) of    *)
(* any record it leaves in the store.                                      *)
C2_AgeExpiry ==
    [][\A k \in Keys :
          GetStep(k) =>
            /\ (k \in DOMAIN files /\ HasConfidence(files, k)
                  /\ ~LowConfidence(files, k)) =>
                  IF now - files[k].mtime <= max_age_seconds
                  THEN last'.ret = JsonLoad(files[k].text).value
                  ELSE last'.ret = None
            /\ \A j \in DOMAIN files' :
                  j \in DOMAIN files /\ files'[j].mtime = files[j].mtime]_vars

\* a get returned a record at the last moment of its life, age = max_age
C2_Witness ==
    /\ last.op = "get"
    /\ last.ret # None
    /\ last.key \in DOMAIN files
    /\ now - files[last.key].mtime = max_age_seconds
    /\ max_age_seconds > 0

(* C3  Purge on inspection: a get that finds a record which exceeded       *)
(* max_age or has a confidence below the threshold leaves no record for    *)
(* that key in the store.                                                  *)
C3_PurgeOnInspection ==
    [][\A k \in Keys :
          (/\ GetStep(k)
           /\ k \in DOMAIN files
           /\ (TooOld(files, k, now) \/ LowConfidence(files, k)))
          => k \notin DOMAIN files']_vars

(* C4  Corrupt record handling: a get on a key whose stored record cannot  *)
(* be parsed returns absent, counts one miss and leaves no record for the  *)
(* key in the store.                                                       *)
C4_CorruptRecord ==
    [][\A k \in Keys :
          (/\ GetStep(k)
           /\ k \in DOMAIN files
           /\ ~JsonLoad(files[k].text).ok)
          => /\ last'.ret = None
             /\ stats'.misses = stats.misses + 1
             /\ k \notin DOMAIN files']_vars

(* C5  Write-failure atomicity: a put that fails while writing leaves the  *)
(* store as it was before the put: no part-written record, and the record  *)
(* stored for the key before is still there, unchanged.                    *)
C5_WriteFailureAtomic ==
    [][\A k \in Keys :
          (last'.op = "store_failed" /\ last'.key = k) =>
            /\ k \in DOMAIN files' => files'[k].text.complete
            /\ Usable(files, k, now) =>
                  (k \in DOMAIN files' /\ files'[k].text = files[k].text)
            /\ \A j \in Keys \ {k} :
                  /\ j \in DOMAIN files' <=> j \in DOMAIN files
                  /\ j \in DOMAIN files => files'[j] = files[j]]_vars

---------------------------------------------------------------------------
(* Size enforcement on directories of up to three entries with pairwise    *)
(* distinct access times.                                                  *)

LruPrompts == Prompts \cup {<<"g">>}

LruKeys == {KeyOf(p) : p \in LruPrompts}

LruFiles ==
    {[text |-> JsonDump([response |-> r, confidence |-> 95,
                         schema_valid |-> TRUE]),
      mtime |-> 0, atime |-> a] : r \in Responses, a \in 0..MaxTime}

LruDirs ==
    UNION {{fs \in [ks -> LruFiles] :
               \A i, j \in ks : i # j => fs[i].atime # fs[j].atime} :
           ks \in SUBSET LruKeys}

LruInit ==
    /\ files \in LruDirs
    /\ now = MaxTime
    /\ stats = InitStats
    /\ last = Done("init", NoKey, None)
    /\ calls = [gets |-> 0, returned |-> 0]
    /\ StoreAlone

LruNext == EnforceSizeBudget /\ UNCHANGED <<req, thr, calc, conn, cfg>>

LruSpec == LruInit /\ [][LruNext]_vars

\* the j most recently accessed entries of fs
Newest(fs, j) ==
    {k \in DOMAIN fs :
        Cardinality({m \in DOMAIN fs : fs[m].atime > fs[k].atime}) < j}

\* the budget fits the last j entries of fs and not the last j + 1
FitsOnlyLast(fs, j) ==
    /\ SumSizes(fs, Newest(fs, j)) <= max_size_mb
    /\ j < Cardinality(DOMAIN fs) =>
          SumSizes(fs, Newest(fs, j + 1)) > max_size_mb

\* the access times of fs are pairwise distinct
DistinctAtimes(fs) ==
    \A i, j \in DOMAIN fs : i # j => fs[i].atime # fs[j].atime

(* C6  LRU eviction: when size enforcement runs on N entries with pairwise *)
(* distinct access times and the budget fits only the k most recently      *)
(* accessed ones, exactly the N - k least recently accessed entries are    *)
(* removed, the k others stay as they were, and the evictions counter      *)
(* grows by exactly N - k.                                                 *)
C6_LruEviction ==
    [][\A j \in 0..Cardinality(DOMAIN files) :
          (/\ last'.op = "enforce"
           /\ DistinctAtimes(files)
           /\ FitsOnlyLast(files, j))
          => /\ DOMAIN files' = Newest(files, j)
             /\ \A k \in DOMAIN files' : files'[k] = files[k]
             /\ stats'.evictions =
                   stats.evictions + Cardinality(DOMAIN files) - j]_vars

\* an enforcement evicted two entries and kept one
C6_Witness ==
    /\ last.op = "enforce"
    /\ stats.evictions = 2
    /\ Cardinality(DOMAIN files) = 1

(* C7  Budget frame condition: size enforcement on a store whose total     *)
(* size is at or below the budget removes nothing, changes no entry and    *)
(* leaves the evictions counter alone; and after every put that completed  *)
(* the total stored size is at most the budget.                            *)
C7_BudgetFrame ==
    [][/\ (last'.op = "enforce" /\ TotalSizeMb(files) <= max_size_mb) =>
            (files' = files /\ stats'.evictions = stats.evictions)
       /\ last'.op = "store" => TotalSizeMb(files') <= max_size_mb]_vars

\* an enforcement ran on a store filled exactly to its budget
C7_Witness ==
    /\ last.op = "enforce"
    /\ DOMAIN files # {}
    /\ TotalSizeMb(files) = max_size_mb

---------------------------------------------------------------------------
\* this step is a put of result under prompt whose write completed
PutStep(prompt, result) ==
    last'.op = "store" /\ last'.key = KeyOf(prompt) /\ StoreOk(prompt, result)

\* the record a completed put of result under prompt writes at time t
NewRecord(prompt, result) == JsonDump(Stamped(result, prompt))

(* C8  put overwrites (as stated): after a put whose write completed the   *)
(* store holds a record for the key and it carries the new payload and     *)
(* confidence; the records of the other keys are as they were or were      *)
(* evicted by the enforcement that follows the write.                      *)
C8_PutOverwrites ==
    [][\A p \in Prompts, r \in {d \in Results : Serialisable(d)} :
          PutStep(p, r) =>
            /\ KeyOf(p) \in DOMAIN files'
            /\ files'[KeyOf(p)].text = NewRecord(p, r)
            /\ \A j \in DOMAIN files' \ {KeyOf(p)} :
                  j \in DOMAIN files /\ files'[j] = files[j]]_vars

(* C8  put overwrites (amended): after a put whose write completed the     *)
(* store holds at most the one record for the key that the put wrote, with *)
(* the new payload and confidence, written at the time of the put; that    *)
(* record is missing only if the store was over its budget once the new    *)
(* record was written, in which case the enforcement that follows the      *)
(* write may have evicted it.  A record of another key is as it was, or    *)
(* was evicted by that enforcement (again only when the store with the new *)
(* record in it was over budget).  Enforcement comes after the write: the  *)
(* store with the new record counted is within the budget afterwards.      *)
C8_PutOverwritesAmended ==
    [][\A p \in Prompts, r \in {d \in Results : Serialisable(d)} :
          PutStep(p, r) =>
            LET k == KeyOf(p)
                sizeWritten ==
                    SumSizes(files, DOMAIN files \ {k})
                      + StSize(NewFile(NewRecord(p, r), now))
            IN /\ k \in DOMAIN files' =>
                    /\ files'[k].text = NewRecord(p, r)
                    /\ files'[k].mtime = now
               /\ DOMAIN files' \subseteq DOMAIN files \cup {k}
               /\ \A j \in DOMAIN files' \ {k} : files'[j] = files[j]
               /\ DOMAIN files' # DOMAIN files \cup {k} =>
                    sizeWritten > max_size_mb
               /\ TotalSizeMb(files') <= max_size_mb]_vars

\* a put overwrote the record of its key (the record's access time is
\* older than its write time) while another key holds a record
C8_Witness ==
    /\ last.op = "store"
    /\ last.key \in DOMAIN files
    /\ files[last.key].mtime = now
    /\ files[last.key].atime < now
    /\ DOMAIN files # {last.key}

(* C9  clear asymmetry: a clear leaves no entry in the store, sets the     *)
(* current size, evictions and invalidations to 0 and leaves hits and      *)
(* misses as they were; a get that follows a clear directly is a miss.     *)
C9_ClearAsymmetry ==
    [][/\ last'.op = "clear" =>
            /\ DOMAIN files' = {}
            /\ stats'.current_size_mb = 0
            /\ stats'.evictions = 0
            /\ stats'.invalidations = 0
            /\ stats'.hits = stats.hits
            /\ stats'.misses = stats.misses
       /\ (last.op = "clear" /\ calls'.gets = calls.gets + 1) =>
            /\ last'.ret = None
            /\ stats'.misses = stats.misses + 1
            /\ stats'.hits = stats.hits]_vars

\* a clear ran on a cache that had counted a hit and a miss before; both
\* are still counted
C9_Witness ==
    /\ last.op = "clear"
    /\ stats.hits > 0
    /\ stats.misses > 0

(* C10  Hit/miss accounting: hits + misses is the number of completed get  *)
(* calls and hits is the number of them that returned an entry; every get  *)
(* adds one to exactly one of the two counters.                            *)
C10_HitMissAccounting ==
    /\ stats.hits + stats.misses = calls.gets
    /\ stats.hits = calls.returned

\* two gets completed, one returned an entry and one did not
C10_Witness ==
    /\ calls.gets = 2
    /\ calls.returned = 1
    /\ stats.hits = 1
    /\ stats.misses = 1

(* C11  Access-time maintenance: a get that returns an entry leaves that   *)
(* entry with an access time equal to the time of the read, and a get that *)
(* returns absent changes the access time of no entry.                     *)
C11_AccessTime ==
    [][\A k \in Keys :
          GetStep(k) =>
            /\ last'.ret # None =>
                  (k \in DOMAIN files' /\ files'[k].atime = now)
            /\ last'.ret = None =>
                  \A j \in DOMAIN files \cap DOMAIN files' :
                      files'[j].atime = files[j].atime]_vars

---------------------------------------------------------------------------
(* OllamaAnalyzer (src/src/biodb_analyzer/ai/ollama.py): one analyzer that *)
(* serves its requests one after the other.  Of the request kinds only     *)
(* analyze_database consults the cache; analyze_relationships and          *)
(* generate_analysis_plan build their prompt themselves and go straight to *)
(* _generate_response.  A request is followed through the places where it  *)
(* can stop: "probed" (cache.get returned), "prompted" (the prompt is      *)
(* built), "posted" (requests.post is under way), "replied" (the backend   *)
(* answered), and the two ends "Returned" and "Failed".                    *)

\* at most MaxRequests requests are served
MaxRequests == 2

\* the literal 0.95 a cached result is compared with, in hundredths
FastTrust == 95

\* self.db_path.stem of the analyzer
DbStem == <<"s">>

\* f"analyze_database_{self.db_path.stem}", what analyze_database passes to
\* the cache as the prompt
AnalyzeDatabaseCacheKey(stem) == <<"a", "_">> \o stem

OrchKey == KeyOf(AnalyzeDatabaseCacheKey(DbStem))

\* the request kinds that call _generate_response with a prompt of their
\* own making
DirectKinds == {"analyze_relationships", "generate_analysis_plan"}

\* what requests.post and raise_for_status raise: requests.ConnectionError,
\* requests.Timeout, requests.HTTPError, all of them RequestException
BackendErrors == {"ConnectionError", "Timeout", "HTTPError"}

\* result['response'] of an answer of the backend
BackendTexts == {<<"a">>, <<"g">>}

\* cache_config.get('confidence_threshold', 0.95), line 45: the thresholds
\* an analyzer's cache is configured with
Thresholds == {85, 95}

\* the analyzer between two requests, served of them done; probes and
\* posts count the cache lookups and the backend calls of a request
Waiting(served) ==
    [kind |-> "none", pc |-> "idle", served |-> served, cached |-> None,
     probes |-> 0, posts |-> 0, backend |-> "none", text |-> <<>>,
     error |-> "none", ret |-> None, before |-> None, threshold |-> 95]

\* a request of the given kind enters its method; before is the cache
\* directory as the request found it
Entered(r, kind, fs) ==
    [Waiting(r.served) EXCEPT !.kind = kind, !.before = fs,
                              !.threshold = r.threshold]

\* an exception leaves the method: every method logs it and raises it again
Raised(r, e) == [r EXCEPT !.pc = "Failed", !.error = e]

\* the backend call is repeated once after a RequestException
BackendRaisedRetried(r, e) ==
    IF r.posts < 2
    THEN [r EXCEPT !.backend = e, !.posts = @ + 1]
    ELSE Raised([r EXCEPT !.backend = e], e)

\* requests.post or raise_for_status raised e: _generate_response logs it
\* and raises it again, and so does the method that called it
BackendRaised(r, e) == Raised([r EXCEPT !.backend = e], e)

\* the records other users of the cache directory left under the key of
\* the analyzer
OrchFiles ==
    {NewFile(JsonDump([response |-> <<"a">>, confidence |-> c,
                       schema_valid |-> TRUE]), 0) : c \in {90, 95, 100}}
    \cup {NewFile(JsonDump([response |-> <<"b", "b">>,
                            schema_valid |-> FALSE]), 0)}
    \cup LeftOverFiles

OrchDirs == UNION {[ks -> OrchFiles] : ks \in SUBSET {OrchKey}}

OrchInit ==
    /\ files \in OrchDirs
    /\ now = 0
    /\ stats = InitStats
    /\ last = Done("init", NoKey, None)
    /\ calls = [gets |-> 0, returned |-> 0]
    /\ req \in {[Waiting(0) EXCEPT !.threshold = c] : c \in Thresholds}
    /\ thr = None
    /\ calc = None
    /\ conn = None
    /\ cfg = None

\* analyze_database, lines 74-75: the key is made and the cache is asked
CacheProbe(touch) ==
    /\ req.pc = "idle"
    /\ req.served < MaxRequests
    /\ Get(AnalyzeDatabaseCacheKey(DbStem), touch)
    /\ req' = [Entered(req, "analyze_database", files) EXCEPT
                  !.pc = "probed",
                  !.probes = 1,
                  !.cached = GetResult(files, OrchKey, now)]
    /\ UNCHANGED <<thr, calc, conn, cfg>>

\* line 77: cached_result and cached_result['confidence'] >= 0.95, on a
\* result that is there and carries a confidence
Trusted(cached) ==
    /\ cached # None
    /\ "confidence" \in DOMAIN cached
    /\ cached.confidence >= FastTrust

\* lines 77-78: the cached result is returned as it is
ReturnCached ==
    /\ req.pc = "probed"
    /\ Trusted(req.cached)
    /\ req' = [req EXCEPT !.pc = "Returned", !.ret = req.cached]
    /\ UNCHANGED <<files, now, stats, last, calls, thr, calc, conn, cfg>>

\* line 77 on a cached result without a 'confidence': the subscript raises
\* KeyError
ConfidenceMissing ==
    /\ req.pc = "probed"
    /\ req.cached # None
    /\ "confidence" \notin DOMAIN req.cached
    /\ req' = Raised(req, "KeyError")
    /\ UNCHANGED <<files, now, stats, last, calls, thr, calc, conn, cfg>>

\* line 81: self._prepare_prompt is looked up; OllamaAnalyzer has no such
\* attribute, the lookup raises AttributeError
PreparePrompt ==
    /\ req.pc = "probed"
    /\ \/ req.cached = None
       \/ /\ "confidence" \in DOMAIN req.cached
          /\ req.cached.confidence < FastTrust
    /\ req' = Raised(req, "AttributeError")
    /\ UNCHANGED <<files, now, stats, last, calls, thr, calc, conn, cfg>>

\* analyze_relationships lines 112-116 and generate_analysis_plan lines
\* 477-494: the prompt is built from the template
FormatPrompt(kind) ==
    /\ req.pc = "idle"
    /\ req.served < MaxRequests
    /\ req' = [Entered(req, kind, files) EXCEPT !.pc = "prompted"]
    /\ UNCHANGED <<files, now, stats, last, calls, thr, calc, conn, cfg>>

\* the request kinds whose method begins with self._prepare_prompt
PreparedKinds ==
    {"generate_visualization_suggestions", "analyze_data_quality",
     "generate_research_questions"}

\* generate_visualization_suggestions line 135, analyze_data_quality line
\* 249 (after the table size was read, lines 241-246) and
\* generate_research_questions line 303: self._prepare_prompt is looked up
\* and the lookup raises AttributeError
PreparePromptFirst(kind) ==
    /\ req.pc = "idle"
    /\ req.served < MaxRequests
    /\ req' = Raised(Entered(req, kind, files), "AttributeError")
    /\ UNCHANGED <<files, now, stats, last, calls, thr, calc, conn, cfg>>

\* _generate_response line 418: the request is sent
Post ==
    /\ req.pc = "prompted"
    /\ req' = [req EXCEPT !.pc = "posted", !.posts = @ + 1]
    /\ UNCHANGED <<files, now, stats, last, calls, thr, calc, conn, cfg>>

\* lines 418-419 and 433-435: the call raises a RequestException
PostRaises(e) ==
    /\ req.pc = "posted"
    /\ req' = BackendRaised(req, e)
    /\ UNCHANGED <<files, now, stats, last, calls, thr, calc, conn, cfg>>

\* lines 418-421: the backend answers
PostReturns(text) ==
    /\ req.pc = "posted"
    /\ req' = [req EXCEPT !.pc = "replied", !.backend = "ok", !.text = text]
    /\ UNCHANGED <<files, now, stats, last, calls, thr, calc, conn, cfg>>

\* line 424 calls self._calculate_confidence, which is the definition of
\* lines 437-463 (it replaces the one of lines 342-365): its f-string reads
\* the undefined name table_name and raises NameError; NameError is no
\* RequestException and leaves _generate_response and its caller
CalculateConfidence ==
    /\ req.pc = "replied"
    /\ req' = Raised(req, "NameError")
    /\ UNCHANGED <<files, now, stats, last, calls, thr, calc, conn, cfg>>

\* the caller has the result or the exception; the analyzer is free again
Finish ==
    /\ req.pc \in {"Returned", "Failed"}
    /\ req' = [Waiting(req.served + 1) EXCEPT !.threshold = req.threshold]
    /\ UNCHANGED <<files, now, stats, last, calls, thr, calc, conn, cfg>>

OrchNext ==
    \/ \E touch \in BOOLEAN : CacheProbe(touch)
    \/ ReturnCached
    \/ ConfidenceMissing
    \/ PreparePrompt
    \/ \E kind \in DirectKinds : FormatPrompt(kind)
    \/ \E kind \in PreparedKinds : PreparePromptFirst(kind)
    \/ Post
    \/ \E e \in BackendErrors : PostRaises(e)
    \/ \E text \in BackendTexts : PostReturns(text)
    \/ CalculateConfidence
    \/ Finish
    \/ Tick /\ UNCHANGED <<req, thr, calc, conn, cfg>>

OrchSpec == OrchInit /\ [][OrchNext]_vars

\* the steps a request takes once it has entered its method: the method
\* runs on to its return or raise, and the backend call ends, with an
\* answer or with an exception
RequestStep ==
    \/ ReturnCached
    \/ ConfidenceMissing
    \/ PreparePrompt
    \/ Post
    \/ \E e \in BackendErrors : PostRaises(e)
    \/ \E text \in BackendTexts : PostReturns(text)
    \/ CalculateConfidence

\* the requests of an analyzer whose methods and backend calls all end
OrchFair == OrchSpec /\ WF_vars(RequestStep)

(* C12  Fast-trust path: a request whose cache probe returned an entry     *)
(* with a confidence of at least 0.95 goes to Returned with that entry,    *)
(* without a backend call and without a write to the cache; a request      *)
(* whose probe missed, or returned an entry with a lower confidence, goes  *)
(* on to the backend call.  (The steps meant are those of the request; the *)
(* clock may tick in between.)                                             *)
C12_FastTrust ==
    [][(req.pc = "probed" /\ req' # req) =>
          IF Trusted(req.cached)
          THEN /\ req'.pc = "Returned"
               /\ req'.ret = req.cached
               /\ req'.posts = 0
               /\ files' = files
          ELSE (req.cached = None \/ "confidence" \in DOMAIN req.cached)
                  => req'.pc \in {"prompted", "posted"}]_vars

(* C13  Backend failure: when the backend call of a request raises, the    *)
(* request is Failed with that error, the backend was called exactly once  *)
(* for it, and the cache directory is as the request found it.             *)
C13_BackendFailure ==
    [][(req.pc = "posted" /\ req'.backend \in BackendErrors) =>
          /\ req'.pc = "Failed"
          /\ req'.error = req'.backend
          /\ req'.posts = 1
          /\ files' = req.before]_vars

\* a request ended Failed with the time-out its one backend call raised
C13_Witness ==
    /\ req.pc = "Failed"
    /\ req.backend = "Timeout"
    /\ req.error = "Timeout"
    /\ req.posts = 1

\* the record under the analyzer's key is usable, and its confidence lies
\* between the threshold of the cache and the 0.95 of the fast-trust path
BelowFastTrust(fs, t) ==
    /\ Usable(fs, OrchKey, t)
    /\ JsonLoad(fs[OrchKey].text).value.confidence < FastTrust

(* C22  Low-confidence hit path: with a threshold of 0.85 an entry stored  *)
(* with confidence 0.9 is still returned by get, a request that finds it   *)
(* does not return it on the fast-trust path but goes on to a new backend  *)
(* call, and a request that got a backend answer writes the new result     *)
(* over the entry.                                                         *)
C22_LowConfidenceHit ==
    [][/\ (req.pc = "idle" /\ req'.pc = "probed" /\ BelowFastTrust(files, now))
          => req'.cached = JsonLoad(files[OrchKey].text).value
       /\ (/\ req.pc = "probed" /\ req' # req
           /\ req.cached # None /\ "confidence" \in DOMAIN req.cached
           /\ req.cached.confidence < FastTrust)
          => req'.pc \in {"prompted", "posted"}
       /\ (/\ req.kind = "analyze_database" /\ req.pc = "replied" /\ req' # req)
          => /\ OrchKey \in DOMAIN files'
             /\ JsonLoad(files'[OrchKey].text).value.response = req.text]_vars

\* a request is under way
Underway == req.pc \in {"probed", "prompted", "posted", "replied"}

(* C24  Request termination: every request that is under way ends          *)
(* Returned or Failed, whatever the cache probe and the backend call gave, *)
(* and a request that got an answer from the backend ends Returned.        *)
(* (Requests are told apart by the number of requests served before.)      *)
C24_RequestTermination ==
    \A n \in 0..MaxRequests :
        /\ (Underway /\ req.served = n)
              ~> (req.pc \in {"Returned", "Failed"} /\ req.served = n)
        /\ (req.pc = "replied" /\ req.served = n)
              ~> (req.pc = "Returned" /\ req.served = n)

\* the methods of the five analysis kinds: analyze_database,
\* generate_visualization_suggestions, generate_analysis_plan,
\* analyze_data_quality, generate_research_questions
AnalysisKinds == {"analyze_database", "generate_analysis_plan"} \cup PreparedKinds

(* C25  Uniform request protocol: a request of any of the five analysis    *)
(* kinds has probed the cache when it calls the backend, and a request     *)
(* that returns after a backend call leaves its result in the cache under  *)
(* its key.                                                                *)
C25_UniformProtocol ==
    [][/\ (req'.kind \in AnalysisKinds /\ req.pc # "posted" /\ req'.pc = "posted")
          => req'.probes >= 1
       /\ (/\ req.kind \in AnalysisKinds /\ req.posts >= 1
           /\ req.pc # "Returned" /\ req'.pc = "Returned")
          => /\ OrchKey \in DOMAIN files'
             /\ JsonLoad(files'[OrchKey].text).value.response = req.text]_vars

---------------------------------------------------------------------------
(* Callers that share one AnalysisCache (threads of one process) and run   *)
(* its methods at the same time.  The cache takes no lock, so a method of  *)
(* one caller can be overtaken by a method of another wherever it touches  *)
(* the directory or the counters.  A caller is followed through these      *)
(* places:                                                                 *)
(*   get     "check" (_is_cache_valid is due), "read" (the second open)    *)
(*   store   "open" (open(cache_file, 'w') is due), "dump" (the file is    *)
(*           open and truncated, json.dump and close are due)              *)
(*   _check_cache_size                                                     *)
(*           "scan" (the sizes are summed and the files sorted), "evict"   *)
(*           (pop and unlink), "count" (the sizes are summed again, the    *)
(*           counter is read), "counted" (the counter is written),         *)
(*           "finish" (current_size_mb is written), "abort" (the except    *)
(*           branch of store)                                              *)

Threads == {1, 2}

\* each caller runs at most MaxOps methods
MaxOps == 2

\* the results the callers store
ConcResults ==
    {[response |-> <<"a">>, confidence |-> 95, schema_valid |-> TRUE],
     [response |-> <<"b", "b">>, confidence |-> 90, schema_valid |-> TRUE]}

\* a caller outside every method, ops methods behind it
Outside(ops) ==
    [pc |-> "idle", op |-> "none", key |-> NoKey, doc |-> None,
     lost |-> FALSE, ord |-> <<>>, size |-> 0, seen |-> 0, ops |-> ops,
     removed |-> 0]

\* unlink(k) as the callers see it: a caller that holds the file of k open
\* for writing goes on writing to a file no directory entry leads to
Unlinked(th, k) ==
    [t \in DOMAIN th |->
        IF th[t].pc = "dump" /\ th[t].key = k
        THEN [th[t] EXCEPT !.lost = TRUE]
        ELSE th[t]]

\* caller t has left its method
Left(th, t) == [th EXCEPT ![t] = [Outside(th[t].ops + 1) EXCEPT
                                     !.removed = th[t].removed]]

ConcInit ==
    /\ files = [k \in {} |-> None]
    /\ now = 0
    /\ stats = InitStats
    /\ last = Done("init", NoKey, None)
    /\ calls = [gets |-> 0, returned |-> 0]
    /\ req = None
    /\ thr = [t \in Threads |-> Outside(0)]
    /\ calc = None
    /\ conn = None
    /\ cfg = None

\* what a method that raised hands to its caller
Exception(e) == [raised |-> e]

\* get, line 141: _is_cache_valid looks at the file, reads it and decides
GetCheck(t, prompt, touch) ==
    LET k == KeyOf(prompt) IN
    /\ thr[t].pc = "idle"
    /\ thr[t].ops < MaxOps
    /\ files' = IF ReadsFile(files, k, now)
                THEN Put(files, k, ReadAt(files[k], now, touch))
                ELSE files
    /\ IF IsCacheValid(files, k, now)
       THEN /\ thr' = [thr EXCEPT ![t] = [@ EXCEPT !.pc = "read",
                                             !.op = "get", !.key = k]]
            /\ UNCHANGED <<stats, last, calls>>
       ELSE /\ thr' = Left(thr, t)
            /\ stats' = [stats EXCEPT !.misses = @ + 1]
            /\ last' = Done("get", k, None)
            /\ calls' = [calls EXCEPT !.gets = @ + 1]
    /\ UNCHANGED <<now, req, calc, conn, cfg>>

\* get, lines 142-152: the file is opened and read a second time.  A file
\* that is gone makes open raise, and the unlink of the except branch
\* raise again, out of get; a text that does not parse is unlinked and
\* counted as a miss
GetRead(t, touch) ==
    LET k == thr[t].key IN
    /\ thr[t].pc = "read"
    /\ IF k \notin DOMAIN files
       THEN /\ thr' = Left(thr, t)
            /\ last' = Done("get", k, Exception("FileNotFoundError"))
            /\ UNCHANGED <<files, stats, calls>>
       ELSE IF ~JsonLoad(files[k].text).ok
       THEN /\ files' = Remove(files, k)
            /\ thr' = Left(Unlinked(thr, k), t)
            /\ stats' = [stats EXCEPT !.misses = @ + 1]
            /\ last' = Done("get", k, None)
            /\ calls' = [calls EXCEPT !.gets = @ + 1]
       ELSE /\ files' = Put(files, k, ReadAt(files[k], now, touch))
            /\ thr' = Left(thr, t)
            /\ stats' = [stats EXCEPT !.hits = @ + 1]
            /\ last' = Done("get", k, JsonLoad(files[k].text).value)
            /\ calls' = [gets |-> calls.gets + 1,
                         returned |-> calls.returned + 1]
    /\ UNCHANGED <<now, req, calc, conn, cfg>>

\* store, lines 168-176: the result is stamped and the file opened for
\* writing, which creates it or cuts it to nothing
StoreOpen(t, prompt, result) ==
    LET k == KeyOf(prompt)
        doc == Stamped(result, prompt)
    IN /\ thr[t].pc = "idle"
       /\ thr[t].ops < MaxOps
       /\ files' = IF k \in DOMAIN files
                   THEN Put(files, k, Rewritten(files[k], PartialDump(doc), now))
                   ELSE Put(files, k, NewFile(PartialDump(doc), now))
       /\ thr' = [thr EXCEPT ![t] = [@ EXCEPT !.pc = "dump", !.op = "store",
                                        !.key = k, !.doc = doc,
                                        !.lost = FALSE]]
       /\ UNCHANGED <<now, stats, last, calls, req, calc, conn, cfg>>

\* the text of the file once a writer of doc has written and closed it:
\* its document, unless another writer of the same file completed a longer
\* one in the meantime, whose tail then follows the document
Closed(file, doc) ==
    IF file.text.complete /\ StSize(file) > Len(doc.response)
    THEN PartialDump(doc)
    ELSE JsonDump(doc)

\* store, line 177: json.dump writes the document and the file is closed
StoreDump(t) ==
    LET k == thr[t].key IN
    /\ thr[t].pc = "dump"
    /\ files' = IF thr[t].lost \/ k \notin DOMAIN files
                THEN files
                ELSE Put(files, k,
                         Rewritten(files[k], Closed(files[k], thr[t].doc), now))
    /\ thr' = [thr EXCEPT ![t] = [@ EXCEPT !.pc = "scan"]]
    /\ UNCHANGED <<now, stats, last, calls, req, calc, conn, cfg>>

\* _check_cache_size, lines 76-84, by a caller in state loc: the sizes are
\* summed and, over the budget, the files are listed by st_atime
Scanned(loc, fs, ord) ==
    IF TotalSizeMb(fs) > max_size_mb
    THEN [loc EXCEPT !.pc = "evict", !.ord = ord, !.size = TotalSizeMb(fs)]
    ELSE [loc EXCEPT !.pc = "finish", !.ord = <<>>, !.size = TotalSizeMb(fs)]

\* store, line 178: _check_cache_size begins
CheckScan(t) ==
    /\ thr[t].pc = "scan"
    /\ \E ord \in SortedByAtime(files) :
          thr' = [thr EXCEPT ![t] = Scanned(@, files, ord)]
    /\ UNCHANGED <<files, now, stats, last, calls, req, calc, conn, cfg>>

\* _check_cache_size called on its own
EnforceScan(t) ==
    /\ thr[t].pc = "idle"
    /\ thr[t].ops < MaxOps
    /\ \E ord \in SortedByAtime(files) :
          thr' = [thr EXCEPT ![t] =
                     Scanned([@ EXCEPT !.op = "enforce"], files, ord)]
    /\ UNCHANGED <<files, now, stats, last, calls, req, calc, conn, cfg>>

\* an exception e leaves _check_cache_size: inside store it is caught by
\* the except of line 179, on its own it reaches the caller
Failed(th, t, e) ==
    IF th[t].op = "store"
    THEN [th EXCEPT ![t] = [@ EXCEPT !.pc = "abort"]]
    ELSE Left(th, t)

\* lines 87-88: files.pop(0) raises IndexError on an empty list, unlink
\* raises FileNotFoundError on a file that is gone
Evict(t) ==
    /\ thr[t].pc = "evict"
    /\ IF thr[t].ord = <<>> \/ Head(thr[t].ord) \notin DOMAIN files
       THEN /\ thr' = Failed(thr, t, "raised")
            /\ last' = IF thr[t].op = "store" THEN last
                       ELSE Done("enforce", NoKey,
                                 Exception(IF thr[t].ord = <<>>
                                           THEN "IndexError"
                                           ELSE "FileNotFoundError"))
            /\ UNCHANGED files
       ELSE /\ files' = Remove(files, Head(thr[t].ord))
            /\ thr' = [Unlinked(thr, Head(thr[t].ord)) EXCEPT
                          ![t] = [@ EXCEPT !.pc = "count",
                                     !.ord = Tail(thr[t].ord),
                                     !.removed = @ + 1]]
            /\ UNCHANGED last
    /\ UNCHANGED <<now, stats, calls, req, calc, conn, cfg>>

\* lines 89-90: the sizes are summed again and the evictions counter is
\* read
Count(t) ==
    /\ thr[t].pc = "count"
    /\ thr' = [thr EXCEPT ![t] = [@ EXCEPT !.pc = "counted",
                                     !.size = TotalSizeMb(files),
                                     !.seen = stats.evictions]]
    /\ UNCHANGED <<files, now, stats, last, calls, req, calc, conn, cfg>>

\* line 90: the counter is written, one more than it was read; line 86:
\* the loop goes on while the size is over the budget
Counted(t) ==
    /\ thr[t].pc = "counted"
    /\ stats' = [stats EXCEPT !.evictions = thr[t].seen + 1]
    /\ thr' = [thr EXCEPT ![t] = [@ EXCEPT !.pc =
                  IF thr[t].size > max_size_mb THEN "evict" ELSE "finish"]]
    /\ UNCHANGED <<files, now, last, calls, req, calc, conn, cfg>>

\* line 92: current_size_mb is written and the method returns
CheckFinish(t) ==
    /\ thr[t].pc = "finish"
    /\ stats' = [stats EXCEPT !.current_size_mb = thr[t].size]
    /\ last' = IF thr[t].op = "store"
               THEN Done("store", thr[t].key, None)
               ELSE Done("enforce", NoKey, None)
    /\ thr' = Left(thr, t)
    /\ UNCHANGED <<files, now, calls, req, calc, conn, cfg>>

\* store, lines 179-182: the exception is logged and the file of the key,
\* if there is one, is unlinked
StoreAbort(t) ==
    /\ thr[t].pc = "abort"
    /\ files' = Remove(files, thr[t].key)
    /\ thr' = Left(Unlinked(thr, thr[t].key), t)
    /\ last' = Done("store_failed", thr[t].key, None)
    /\ UNCHANGED <<now, stats, calls, req, calc, conn, cfg>>

ConcNext ==
    \E t \in Threads :
        \/ \E prompt \in Prompts, touch \in BOOLEAN : GetCheck(t, prompt, touch)
        \/ \E touch \in BOOLEAN : GetRead(t, touch)
        \/ \E prompt \in Prompts, result \in ConcResults :
              StoreOpen(t, prompt, result)
        \/ StoreDump(t)
        \/ CheckScan(t)
        \/ EnforceScan(t)
        \/ Evict(t)
        \/ Count(t)
        \/ Counted(t)
        \/ CheckFinish(t)
        \/ StoreAbort(t)

ConcSpec == ConcInit /\ [][ConcNext]_vars

\* the documents the puts for key k are given, as they are written
PutFor(k) ==
    {Stamped(r, p) : r \in ConcResults, p \in {q \in Prompts : KeyOf(q) = k}}

(* C16  Same-key atomicity: whatever way gets and puts of several callers  *)
(* interleave, a get that returns an entry returns a document that a put   *)
(* for that key was given in full, and one that passes the confidence      *)
(* check of the store.                                                     *)
C16_SameKeyAtomic ==
    [][\A k \in Keys :
          (GetStep(k) /\ last'.ret # None) =>
            /\ last'.ret \in PutFor(k)
            /\ "confidence" \in DOMAIN last'.ret =>
                  last'.ret.confidence >= confidence_threshold]_vars

(* C17  Eviction-scan exclusion: while size enforcement runs next to gets, *)
(* puts and other enforcements, its scan does not fail and removes no      *)
(* entry a second time (every entry it takes from its list is there to be  *)
(* unlinked), it removes no entry that a get has checked and is about to   *)
(* read, and every removal adds exactly one to the evictions counter.      *)
C17_ScanExclusion ==
    [][\A t \in Threads :
          /\ (thr[t].pc = "evict" /\ thr'[t] # thr[t]) =>
                /\ thr'[t].pc = "count"
                /\ \A u \in Threads \ {t} :
                      thr[u].pc = "read" => thr[u].key \in DOMAIN files'
          /\ (thr[t].pc = "counted" /\ thr'[t] # thr[t]) =>
                stats'.evictions = stats.evictions + 1]_vars

---------------------------------------------------------------------------
(* AnalysisCache._get_cache_key evaluated on two sets of arguments, in two *)
(* cache instances.                                                        *)

\* analysis types, schema hashes and prompts a caller can pass
KeyKinds == {<<"d">>, <<"d", "_", "h">>}

KeyHashes == {<<"h">>, <<"x">>}

KeyPrompts == {<<"x">>, <<"y">>, <<"x", "_", "y">>, <<"h", "_", "x">>}

KeyInputs == [kind : KeyKinds, hash : KeyHashes, payload : KeyPrompts]

\* cache instances: AnalysisCache(cache_dir=...) with its counters
Instances ==
    {[cache_dir |-> <<"c">>, hits |-> 0], [cache_dir |-> <<"e">>, hits |-> 1]}

\* the key depends on the instance that computes it
DeriveKeyPerInstance(self, in) ==
    Sha256(self.cache_dir \o <<"_">> \o in.kind \o <<"_">> \o in.hash
             \o <<"_">> \o in.payload)

\* self._get_cache_key(prompt, analysis_type, schema_hash)
DeriveKey(self, in) == GetCacheKey(in.payload, in.kind, in.hash)

KeyInit ==
    /\ files = [k \in {} |-> None]
    /\ now = 0
    /\ stats = InitStats
    /\ last = Done("init", NoKey, None)
    /\ calls = [gets |-> 0, returned |-> 0]
    /\ req = None
    /\ thr = None
    /\ conn = None
    /\ cfg = None
    /\ calc \in [pc : {"args"}, a : KeyInputs, b : KeyInputs,
                 ia : Instances, ib : Instances,
                 ka : {NoKey}, ka2 : {NoKey}, kb : {NoKey}]

\* the key of a is computed in instance ia and again in instance ib, the
\* key of b in instance ib
DeriveKeys ==
    /\ calc.pc = "args"
    /\ calc' = [calc EXCEPT !.pc = "derived",
                            !.ka = DeriveKey(calc.ia, calc.a),
                            !.ka2 = DeriveKey(calc.ib, calc.a),
                            !.kb = DeriveKey(calc.ib, calc.b)]
    /\ UNCHANGED <<files, now, stats, last, calls, req, thr, conn, cfg>>

KeyNext == DeriveKeys

KeySpec == KeyInit /\ [][KeyNext]_vars

\* a and b differ in their payload and in nothing else
DifferInPayload(a, b) ==
    a.kind = b.kind /\ a.hash = b.hash /\ a.payload # b.payload

C29_KeyInjectivity ==
    (calc.pc = "derived" /\ calc.a # calc.b) => calc.ka # calc.kb

---------------------------------------------------------------------------
(* The schema hash and the key of analyze_database for two analyzers, each *)
(* on a database file of its own.  What the SQLAlchemy inspector yields    *)
(* for a file is a sequence of tables in the order get_table_names lists   *)
(* them, each with its columns in the order get_columns lists them.  A     *)
(* dict is the sequence of its entries in insertion order, which is the    *)
(* order str() prints them in.                                             *)

\* the ways to enumerate the set S
Perms(S) ==
    {seq \in [1..Cardinality(S) -> S] :
        \A i, j \in 1..Cardinality(S) : i # j => seq[i] # seq[j]}

\* the greatest index of character c in s, 0 if there is none
LastIndexOf(s, c) ==
    IF \E i \in 1..Len(s) : s[i] = c
    THEN CHOOSE i \in 1..Len(s) :
            s[i] = c /\ \A j \in (i + 1)..Len(s) : s[j] # c
    ELSE 0

\* Path(p).name: what follows the last separator
PathName(p) == SubSeq(p, LastIndexOf(p, "/") + 1, Len(p))

\* Path(p).stem: the name without its last suffix
PathStem(p) ==
    LET name == PathName(p)
        i == LastIndexOf(name, ".")
    IN IF 1 < i /\ i < Len(name) THEN SubSeq(name, 1, i - 1) ELSE name

\* the database files
DbPaths ==
    {<<"a", ".", "d">>, <<"b", ".", "d">>, <<"p", "/", "a", ".", "d">>}

\* col['type'] of a reflected column: an object that has a __name__ (a
\* class) or has none (an instance)
ColumnType(named) == [name |-> <<"I">>, named |-> named]

ColumnsOfG(named) ==
    {[name |-> <<"i">>, type |-> ColumnType(named)],
     [name |-> <<"n">>, type |-> ColumnType(named)]}

\* table g with its columns listed in any order
TablesG(named) ==
    {[name |-> <<"g">>, columns |-> cols, pk |-> <<<<"i">>>>, fks |-> <<>>] :
        cols \in Perms(ColumnsOfG(named))}

\* table s, with or without a foreign key to g
TablesS(named) ==
    {[name |-> <<"s">>,
      columns |-> <<[name |-> <<"i">>, type |-> ColumnType(named)]>>,
      pk |-> <<<<"i">>>>, fks |-> fks] : fks \in {<<>>, << <<"g">> >>}}

\* what the inspector can yield: no table, g, s, or both in any order
Enumerations ==
    UNION {UNION {Perms(ts) :
                    ts \in {{}} \cup {{g} : g \in TablesG(named)}
                             \cup {{t} : t \in TablesS(named)}
                             \cup {{g, t} : g \in TablesG(named),
                                            t \in TablesS(named)}} :
           named \in BOOLEAN}

\* the entries of a dict, whatever their order
Entries(seq) == {seq[i] : i \in 1..Len(seq)}

\* {col['name']: col['type'].__name__ for col in columns}
ColumnsDict(columns) ==
    [i \in 1..Len(columns) |->
        [key |-> columns[i].name, value |-> columns[i].type.name]]

\* _load_schema, lines 48-54: schema['tables'], filled table by table
TablesDict(tables) ==
    [i \in 1..Len(tables) |->
        [key |-> tables[i].name,
         value |-> [columns |-> ColumnsDict(tables[i].columns),
                    primary_key |-> tables[i].pk]]]

\* lines 57-59: schema['foreign_keys'], an entry for a table that has some
ForeignKeysDict(tables) ==
    LET with == SelectSeq(tables, LAMBDA t : t.fks # <<>>)
    IN [i \in 1..Len(with) |-> [key |-> with[i].name, value |-> with[i].fks]]

\* SchemaValidator._load_schema: the schema dict, or the AttributeError of
\* line 52 for a column type without a __name__
LoadSchema(tables) ==
    IF \E i \in 1..Len(tables) :
          \E j \in 1..Len(tables[i].columns) : ~tables[i].columns[j].type.named
    THEN Exception("AttributeError")
    ELSE [tables |-> TablesDict(tables),
          foreign_keys |-> ForeignKeysDict(tables)]

\* repr of a str
Quote(s) == <<"'">> \o s \o <<"'">>

RECURSIVE Join(_)
\* ", ".join(parts), the separator written as one character
Join(parts) ==
    IF parts = <<>> THEN <<>>
    ELSE IF Len(parts) = 1 THEN parts[1]
    ELSE parts[1] \o <<",">> \o Join(Tail(parts))

\* str() of a list of names
StrNames(names) ==
    <<"[">> \o Join([i \in 1..Len(names) |-> Quote(names[i])]) \o <<"]">>

\* str() of the 'columns' dict of a table
StrColumns(d) ==
    <<"{">>
      \o Join([i \in 1..Len(d) |->
                 Quote(d[i].key) \o <<":">> \o Quote(d[i].value)])
      \o <<"}">>

\* str() of schema['tables']; 'columns' and 'primary_key' are written c, p
StrTables(d) ==
    <<"{">>
      \o Join([i \in 1..Len(d) |->
                 Quote(d[i].key) \o <<":", "{", "c", ":">>
                   \o StrColumns(d[i].value.columns) \o <<",", "p", ":">>
                   \o StrNames(d[i].value.primary_key) \o <<"}">>])
      \o <<"}">>

\* str() of schema['foreign_keys']
StrForeignKeys(d) ==
    <<"{">>
      \o Join([i \in 1..Len(d) |->
                 Quote(d[i].key) \o <<":">> \o StrNames(d[i].value)])
      \o <<"}">>

\* str(schema): 'tables', 'relationships', 'primary_keys', 'foreign_keys'
\* in the order line 38 creates them, written t, r, k, f
Str(schema) ==
    <<"{", "t", ":">> \o StrTables(schema.tables)
      \o <<",", "r", ":", "{", "}", ",", "k", ":", "{", "}", ",", "f", ":">>
      \o StrForeignKeys(schema.foreign_keys) \o <<"}">>

\* cache.py line 137: hashlib.sha256(str(schema_validator.schema).encode())
SchemaHashOf(schema) == Sha256(Str(schema))

\* ollama.py lines 74-75 with cache.py lines 137-138: the key under which
\* analyze_database looks its result up
ResolveKey(path, schema) ==
    GetCacheKey(AnalyzeDatabaseCacheKey(PathStem(path)), AnalysisType,
                SchemaHashOf(schema))

\* an analyzer is made for a database file whose inspector enumerates the
\* schema in some order
Analyzers == [path : DbPaths, tables : Enumerations]

\* the result cached for the first analyzer
CachedResult == [response |-> <<"a">>, confidence |-> 95, schema_valid |-> TRUE]

HashInit ==
    /\ files = [k \in {} |-> None]
    /\ now = 0
    /\ stats = InitStats
    /\ last = Done("init", NoKey, None)
    /\ calls = [gets |-> 0, returned |-> 0]
    /\ req = None
    /\ thr = None
    /\ conn = None
    /\ cfg = None
    /\ calc \in [pc : {"files"}, a : Analyzers, b : Analyzers,
                 sa : {None}, sb : {None}, ha : {NoKey}, hb : {NoKey},
                 ka : {NoKey}, kb : {NoKey}]

\* SchemaValidator.__init__ of both analyzers: the schemas are loaded, or
\* a load raises and there are no two analyzers
LoadSchemas ==
    /\ calc.pc = "files"
    /\ calc' = [calc EXCEPT
                  !.sa = LoadSchema(calc.a.tables),
                  !.sb = LoadSchema(calc.b.tables),
                  !.pc = IF "raised" \in DOMAIN LoadSchema(calc.a.tables)
                            \/ "raised" \in DOMAIN LoadSchema(calc.b.tables)
                         THEN "failed" ELSE "loaded"]
    /\ UNCHANGED <<files, now, stats, last, calls, req, thr, conn, cfg>>

\* both analyzers derive the key of their analyze_database request
ResolveKeys ==
    /\ calc.pc = "loaded"
    /\ calc' = [calc EXCEPT !.pc = "resolved",
                            !.ha = SchemaHashOf(calc.sa),
                            !.hb = SchemaHashOf(calc.sb),
                            !.ka = ResolveKey(calc.a.path, calc.sa),
                            !.kb = ResolveKey(calc.b.path, calc.sb)]
    /\ UNCHANGED <<files, now, stats, last, calls, req, thr, conn, cfg>>

\* cache.store under the key of the first analyzer
CacheForFirst ==
    /\ calc.pc = "resolved"
    /\ LET doc == Stamped(CachedResult,
                          AnalyzeDatabaseCacheKey(PathStem(calc.a.path)))
       IN \E ord \in SortedByAtime(Written(files, calc.ka, doc, now)) :
             files' = StoreOutcome(files, calc.ka, doc, now, ord).files
    /\ stats' = [stats EXCEPT !.current_size_mb = TotalSizeMb(files')]
    /\ last' = Done("store", calc.ka, None)
    /\ calc' = [calc EXCEPT !.pc = "cached"]
    /\ UNCHANGED <<now, calls, req, thr, conn, cfg>>

\* cache.get under the key of the second analyzer
ProbeForSecond(touch) ==
    /\ calc.pc = "cached"
    /\ files' = GetFiles(files, calc.kb, now, touch)
    /\ stats' = GetStats(stats, files, calc.kb, now)
    /\ last' = Done("get", calc.kb, GetResult(files, calc.kb, now))
    /\ calls' = [gets |-> calls.gets + 1,
                 returned |-> calls.returned
                    + IF GetResult(files, calc.kb, now) = None THEN 0 ELSE 1]
    /\ calc' = [calc EXCEPT !.pc = "probed"]
    /\ UNCHANGED <<now, req, thr, conn, cfg>>

HashNext ==
    \/ LoadSchemas
    \/ ResolveKeys
    \/ CacheForFirst
    \/ \E touch \in BOOLEAN : ProbeForSecond(touch)

HashSpec == HashInit /\ [][HashNext]_vars

\* schema['tables'] as a mapping, the order of its entries forgotten
TablesOf(schema) ==
    {[key |-> e.key,
      value |-> [columns |-> Entries(e.value.columns),
                 primary_key |-> e.value.primary_key]] :
        e \in Entries(schema.tables)}

\* the two loaded schemas have the same tables, columns and keys
SameStructure(s1, s2) ==
    /\ TablesOf(s1) = TablesOf(s2)
    /\ Entries(s1.foreign_keys) = Entries(s2.foreign_keys)

(* C19  Schema-level keying: for two different database files whose        *)
(* schemas have the same structure, analyze_database resolves to the same  *)
(* cache key, and the result cached for one file is found by the request   *)
(* for the other.                                                          *)
C19_SchemaLevelKeying ==
    (/\ calc.pc \in {"resolved", "cached", "probed"}
     /\ calc.a.path # calc.b.path
     /\ SameStructure(calc.sa, calc.sb))
    => /\ calc.ka = calc.kb
       /\ calc.pc = "probed" => last.ret = CachedResult

(* C20  Hash determinism: two schema loads with the same tables, columns   *)
(* and keys give the same content hash, in whatever order the reader       *)
(* enumerated the tables and the columns.                                  *)
C20_HashDeterminism ==
    (/\ calc.pc \in {"resolved", "cached", "probed"}
     /\ SameStructure(calc.sa, calc.sb))
    => calc.ha = calc.hb

---------------------------------------------------------------------------
(* The confidence score of a response text (ai/ollama.py).  The class body *)
(* of OllamaAnalyzer binds the name _calculate_confidence twice, in lines  *)
(* 342-365 and again in lines 437-463; a call self._calculate_confidence   *)
(* finds the binding made last.                                            *)

\* response texts are at most MaxText characters long
MaxText == 3

ScoreAlphabet == {"g", "G", "s", "i", ".", " "}

ScoreTexts == UNION {[1..n -> ScoreAlphabet] : n \in 0..MaxText}

\* the schema the analyzer's validator loaded: tables g and s, each with
\* the one column i
ScoreSchema ==
    LoadSchema(<<[name |-> <<"g">>,
                  columns |-> <<[name |-> <<"i">>, type |-> ColumnType(TRUE)]>>,
                  pk |-> <<<<"i">>>>, fks |-> <<>>],
                 [name |-> <<"s">>,
                  columns |-> <<[name |-> <<"i">>, type |-> ColumnType(TRUE)]>>,
                  pk |-> <<<<"i">>>>, fks |-> <<>>]>>)

\* SchemaValidator.get_schema_info; schema['primary_keys'] stays empty
GetSchemaInfo(schema) ==
    [tables |-> schema.tables, relationships |-> schema.foreign_keys,
     primary_keys |-> <<>>]

\* sub in s
Contains(s, sub) ==
    \E i \in 0..(Len(s) - Len(sub)) : SubSeq(s, i + 1, i + Len(sub)) = sub

\* the columns of the tables of a schema_info['tables'], each as the pair
\* of the index of its table and its own index
ColumnsOf(tables) ==
    UNION {{<<i, j>> : j \in 1..Len(tables[i].value.columns)} :
             i \in 1..Len(tables)}

\* f"{table}.{column}"
Qualified(tables, ij) ==
    tables[ij[1]].key \o <<".">> \o tables[ij[1]].value.columns[ij[2]].key

\* OllamaAnalyzer._count_schema_references: one for every table whose name
\* is in the response, one for every column whose table.column is in it
CountSchemaReferences(response) ==
    LET tables == GetSchemaInfo(ScoreSchema).tables
    IN Cardinality({i \in 1..Len(tables) :
                      Contains(Lower(response), Lower(tables[i].key))})
       + Cardinality({ij \in ColumnsOf(tables) :
                        Contains(Lower(response),
                                 Lower(Qualified(tables, ij)))})

\* self._calculate_confidence(response): the def of lines 437-463 is the
\* one the class keeps.  Its f-string reads table_name, a name bound
\* neither in the function nor in the module: NameError
BoundCalculateConfidence(response) == Exception("NameError")

ScoreInit ==
    /\ files = [k \in {} |-> None]
    /\ now = 0
    /\ stats = InitStats
    /\ last = Done("init", NoKey, None)
    /\ calls = [gets |-> 0, returned |-> 0]
    /\ req = None
    /\ thr = None
    /\ conn = None
    /\ cfg = None
    /\ calc \in [pc : {"text"}, text : ScoreTexts, strict : BOOLEAN,
                 count : {0}, ret : {None}]

\* self._count_schema_references(text)
CountReferences ==
    /\ calc.pc = "text"
    /\ calc' = [calc EXCEPT !.pc = "counted",
                            !.count = CountSchemaReferences(calc.text)]
    /\ UNCHANGED <<files, now, stats, last, calls, req, thr, conn, cfg>>

\* self._calculate_confidence(text)
Score ==
    /\ calc.pc = "counted"
    /\ calc' = [calc EXCEPT !.pc = "scored",
                            !.ret = BoundCalculateConfidence(calc.text)]
    /\ UNCHANGED <<files, now, stats, last, calls, req, thr, conn, cfg>>

ScoreNext == CountReferences \/ Score

ScoreSpec == ScoreInit /\ [][ScoreNext]_vars

\* the table names and table.column pairs of the schema
KnownNames ==
    LET tables == GetSchemaInfo(ScoreSchema).tables
    IN {tables[i].key : i \in 1..Len(tables)}
       \cup {Qualified(tables, ij) : ij \in ColumnsOf(tables)}

\* how many times a known name occurs in the text, upper and lower case
\* taken as the same and every occurrence counted
Occurrences(text) ==
    Cardinality({ni \in KnownNames \X (0..MaxText) :
                   /\ ni[2] + Len(ni[1]) <= Len(text)
                   /\ SubSeq(Lower(text), ni[2] + 1, ni[2] + Len(ni[1]))
                        = Lower(ni[1])})

\* min(1.0, occurrences / 10), times 0.9 when strict, in hundredths
ScoreOf(occurrences, strict) ==
    LET raw == IF occurrences >= 10 THEN 100 ELSE occurrences * 10
    IN IF strict THEN (raw * 9) \div 10 ELSE raw

(* C21  Confidence score: the references counted in a text are all the     *)
(* occurrences of a known table name or table.column pair in it, repeated  *)
(* mentions counted repeatedly, and the score of the text is               *)
(* min(1.0, occurrences / 10), times 0.9 in strict mode, a number between  *)
(* 0 and 1.                                                                *)
C21_ConfidenceScore ==
    /\ calc.pc \in {"counted", "scored"} => calc.count = Occurrences(calc.text)
    /\ calc.pc = "scored" =>
          /\ calc.ret = ScoreOf(Occurrences(calc.text), calc.strict)
          /\ calc.ret \in 0..100

---------------------------------------------------------------------------
(* The structured lists of the generated text (ai/ollama.py): the four     *)
(* _extract_ methods and the loop that keeps the fragments the validator   *)
(* accepts.  The keywords are written with one letter each: plot p, chart  *)
(* c, graph r; step t, analysis y, procedure o; metric m, quality u,       *)
(* issue e.  The line separator is written "/".                            *)

\* generated texts are at most MaxChars characters long
MaxChars == 4

\* the characters of a generated text: keywords in lower and upper case,
\* the bullet, blank and line separator, the name of the table of the
\* schema (g) and a name that is no table of it (q)
TextAlphabet == {"p", "T", "m", "-", " ", "/", "g", "q"}

GeneratedTexts == UNION {[1..n -> TextAlphabet] : n \in 0..MaxChars}

\* response['visualizations'], ['analysis_steps'], ['quality_metrics'],
\* ['research_questions']
ListKinds ==
    {"visualizations", "analysis_steps", "quality_metrics",
     "research_questions"}

RECURSIVE SplitLinesFrom(_, _, _)
SplitLinesFrom(s, i, line) ==
    IF i > Len(s) THEN <<line>>
    ELSE IF s[i] = "/"
         THEN <<line>> \o SplitLinesFrom(s, i + 1, <<>>)
         ELSE SplitLinesFrom(s, i + 1, Append(line, s[i]))

\* text.split('\n')
SplitLines(text) == SplitLinesFrom(text, 1, <<>>)

RECURSIVE LStrip(_)
LStrip(s) == IF s # <<>> /\ s[1] = " " THEN LStrip(Tail(s)) ELSE s

RECURSIVE RStrip(_)
RStrip(s) ==
    IF s # <<>> /\ s[Len(s)] = " " THEN RStrip(SubSeq(s, 1, Len(s) - 1)) ELSE s

\* str.strip()
Strip(s) == RStrip(LStrip(s))

\* s.startswith(prefix)
StartsWith(s, prefix) ==
    Len(s) >= Len(prefix) /\ SubSeq(s, 1, Len(prefix)) = prefix

\* the keyword lists of lines 169, 223 and 285
Keywords(kind) ==
    CASE kind = "visualizations" -> {<<"p">>, <<"c">>, <<"r">>}
      [] kind = "analysis_steps" -> {<<"t">>, <<"y">>, <<"o">>}
      [] kind = "quality_metrics" -> {<<"m">>, <<"u">>, <<"e">>}

\* the seq with f applied to each element
Map(seq, f(_)) == [i \in 1..Len(seq) |-> f(seq[i])]

\* the keyword is looked for in the line as it is written
ExtractByKeywordsCaseSensitive(text, kind) ==
    Map(SelectSeq(SplitLines(text),
                  LAMBDA line : \E k \in Keywords(kind) : Contains(line, k)),
        Strip)

\* _extract_visualizations, _extract_analysis_steps,
\* _extract_quality_metrics: the lines with any(k in line.lower()),
\* each of them stripped
ExtractByKeywords(text, kind) ==
    Map(SelectSeq(SplitLines(text),
                  LAMBDA line :
                      \E k \in Keywords(kind) : Contains(Lower(line), k)),
        Strip)

\* line.strip()[2:]
Unmarked(line) == SubSeq(Strip(line), 3, Len(Strip(line)))

\* _extract_questions: the lines with line.strip().startswith('- ')
ExtractQuestions(text) ==
    Map(SelectSeq(SplitLines(text),
                  LAMBDA line : StartsWith(Strip(line), <<"-", " ">>)),
        Unmarked)

\* response['response'] is handed to the _extract_ method of the kind
Extracted(text, kind) ==
    IF kind = "research_questions"
    THEN ExtractQuestions(text)
    ELSE ExtractByKeywords(text, kind)

\* the loops of lines 146-150, 200-204, 262-266 and 314-318: the fragments
\* for which schema_validator.validate_analysis is true, in their order
ValidFragments(fragments) == SelectSeq(fragments, ValidateAnalysis)

FragInit ==
    /\ files = [k \in {} |-> None]
    /\ now = 0
    /\ stats = InitStats
    /\ last = Done("init", NoKey, None)
    /\ calls = [gets |-> 0, returned |-> 0]
    /\ req = None
    /\ thr = None
    /\ conn = None
    /\ cfg = None
    /\ calc \in [pc : {"text"}, kind : ListKinds, text : GeneratedTexts,
                 extracted : {<<>>}, valid : {<<>>}]

\* the fragments are taken from the text
Extract ==
    /\ calc.pc = "text"
    /\ calc' = [calc EXCEPT !.pc = "extracted",
                            !.extracted = Extracted(calc.text, calc.kind)]
    /\ UNCHANGED <<files, now, stats, last, calls, req, thr, conn, cfg>>

\* the fragments are validated and the list of the valid ones is put into
\* the response
Validate ==
    /\ calc.pc = "extracted"
    /\ calc' = [calc EXCEPT !.pc = "listed",
                            !.valid = ValidFragments(calc.extracted)]
    /\ UNCHANGED <<files, now, stats, last, calls, req, thr, conn, cfg>>

FragNext == Extract \/ Validate

FragSpec == FragInit /\ [][FragNext]_vars

\* names of tables that the schema does not have
UnknownTables == {<<"q">>}

\* the fragment has name among its words, case not regarded
References(fragment, name) ==
    \E i \in 1..Len(Split(Lower(fragment))) :
        Split(Lower(fragment))[i] = Lower(name)

(* C23  Fragment filtering: whatever the kind of structured list, no item  *)
(* of the list put into the response references a table that is not in    *)
(* the schema.                                                             *)
C23_FragmentFiltering ==
    calc.pc = "listed" =>
        \A i \in 1..Len(calc.valid) :
            \A name \in UnknownTables : ~References(calc.valid[i], name)

---------------------------------------------------------------------------
(* DatabaseConnection (src/src/biodb_analyzer/database/connection.py): one *)
(* caller that makes a connection for a path, uses it directly or as the   *)
(* context manager of a with statement, and closes it.  conn holds the     *)
(* database files on disk, the DatabaseConnection object the caller has    *)
(* (None before one was made), whether the caller is inside the with       *)
(* block, how many engines were created and disposed of, how many queries  *)
(* were handed to an engine, and the call made last with its outcome.      *)

\* at most MaxQueries queries are handed to an engine
MaxQueries == 2

\* the paths a caller passes
ConnPaths == {<<"a", ".", "d">>, <<"b", ".", "d">>}

\* the methods that run a query
QueryMethods == {"execute_query", "get_table_names", "get_table_info"}

\* what a call that returned a value returned
Value(v) == [value |-> v]

\* the call made last: method, path argument (NoKey for methods without)
\* and outcome
Called(op, path, ret) == [op |-> op, path |-> path, ret |-> ret]

\* the engine is created for every path, the file there or not
ConstructedUnchecked(c, path, created) ==
    [c EXCEPT !.obj = [db_path |-> path, engine |-> [url |-> path]],
              !.engines = @ + 1,
              !.last = Called("__init__", path, Value("self"))]

\* DatabaseConnection.__init__ with _connect: FileNotFoundError for a path
\* with no file; otherwise create_engine gives an engine, or raises and
\* _connect raises ConnectionError.  An __init__ that raised leaves the
\* caller without an object
Constructed(c, path, created) ==
    IF path \notin c.disk
    THEN [c EXCEPT !.last = Called("__init__", path,
                                   Exception("FileNotFoundError"))]
    ELSE IF created
         THEN [c EXCEPT !.obj = [db_path |-> path, engine |-> [url |-> path]],
                        !.engines = @ + 1,
                        !.last = Called("__init__", path, Value("self"))]
         ELSE [c EXCEPT !.last = Called("__init__", path,
                                        Exception("ConnectionError"))]

\* DatabaseConnection.close: the engine is disposed of and forgotten, if
\* there is one
Disposed(c) ==
    IF c.obj.engine # None
    THEN [c EXCEPT !.obj.engine = None, !.disposed = @ + 1]
    ELSE c

\* the connection stays open when the body of the with block raised
ExitedOpenOnError(c, exc) ==
    [(IF exc THEN c ELSE Disposed(c)) EXCEPT
        !.inside = FALSE,
        !.left = IF exc THEN "raised" ELSE "returned",
        !.last = Called("__exit__", NoKey,
                        IF exc THEN Exception("BodyError") ELSE Value("None"))]

\* DatabaseConnection.__exit__: close; it returns None, so an exception of
\* the body goes on to the caller of the with statement
Exited(c, exc) ==
    [Disposed(c) EXCEPT
        !.inside = FALSE,
        !.left = IF exc THEN "raised" ELSE "returned",
        !.last = Called("__exit__", NoKey,
                        IF exc THEN Exception("BodyError") ELSE Value("None"))]

\* DatabaseConnection.execute_query, called directly or by get_table_names
\* or get_table_info: ConnectionError without an engine; otherwise the
\* query is executed and gives a DataFrame, or raises SQLAlchemyError, which
\* is raised again as Exception
Queried(c, method, sqlok) ==
    IF c.obj.engine = None
    THEN [c EXCEPT !.last = Called(method, NoKey, Exception("ConnectionError"))]
    ELSE [c EXCEPT !.queries = @ + 1,
                   !.last = Called(method, NoKey,
                                   IF sqlok THEN Value("DataFrame")
                                   ELSE Exception("Exception"))]

ConnInit ==
    /\ files = [k \in {} |-> None]
    /\ now = 0
    /\ stats = InitStats
    /\ last = Done("init", NoKey, None)
    /\ calls = [gets |-> 0, returned |-> 0]
    /\ req = None
    /\ thr = None
    /\ calc = None
    /\ cfg = None
    /\ conn \in [disk : SUBSET ConnPaths, obj : {None}, inside : {FALSE},
                 left : {"never"}, engines : {0}, disposed : {0},
                 queries : {0}, last : {Called("none", NoKey, Value("None"))}]

\* DatabaseConnection(path)
Construct(path, created) ==
    /\ conn.obj = None
    /\ conn' = Constructed(conn, path, created)
    /\ UNCHANGED <<files, now, stats, last, calls, req, thr, calc, cfg>>

\* with conn: __enter__ returns self
Enter ==
    /\ conn.obj # None
    /\ ~conn.inside
    /\ conn.left = "never"
    /\ conn' = [conn EXCEPT !.inside = TRUE,
                            !.last = Called("__enter__", NoKey, Value("self"))]
    /\ UNCHANGED <<files, now, stats, last, calls, req, thr, calc, cfg>>

\* the with block is left, at its end or by an exception of its body
Exit(exc) ==
    /\ conn.obj # None
    /\ conn.inside
    /\ conn' = Exited(conn, exc)
    /\ UNCHANGED <<files, now, stats, last, calls, req, thr, calc, cfg>>

\* conn.execute_query(query), conn.get_table_names(), conn.get_table_info(t)
Query(method, sqlok) ==
    /\ conn.obj # None
    /\ conn.obj.engine # None => conn.queries < MaxQueries
    /\ conn' = Queried(conn, method, sqlok)
    /\ UNCHANGED <<files, now, stats, last, calls, req, thr, calc, cfg>>

\* conn.close()
Close ==
    /\ conn.obj # None
    /\ conn' = [Disposed(conn) EXCEPT
                   !.last = Called("close", NoKey, Value("None"))]
    /\ UNCHANGED <<files, now, stats, last, calls, req, thr, calc, cfg>>

ConnNext ==
    \/ \E path \in ConnPaths, created \in BOOLEAN : Construct(path, created)
    \/ Enter
    \/ \E exc \in BOOLEAN : Exit(exc)
    \/ \E method \in QueryMethods, sqlok \in BOOLEAN : Query(method, sqlok)
    \/ Close

ConnSpec == ConnInit /\ [][ConnNext]_vars

\* this step is a call of the constructor
ConstructStep == conn' # conn /\ conn'.last.op = "__init__"

(* C26  Construction fails on a missing database: the constructor called   *)
(* for a path at which there is no file raises an error, the caller gets   *)
(* no connection object, and no engine is created.                         *)
C26_MissingDatabase ==
    [][(ConstructStep /\ conn'.last.path \notin conn.disk) =>
          /\ "raised" \in DOMAIN conn'.last.ret
          /\ conn'.obj = None
          /\ conn'.engines = conn.engines]_vars

\* the constructor was called for a path with no file while another file
\* was there, and raised
C26_Witness ==
    /\ conn.last.op = "__init__"
    /\ conn.last.path \notin conn.disk
    /\ conn.disk # {}
    /\ conn.last.ret = Exception("FileNotFoundError")
    /\ conn.obj = None
    /\ conn.engines = 0

\* the connection the caller has is open
IsOpen(c) == c.obj # None /\ c.obj.engine # None

(* C27  Connection lifecycle: a connection is open once its constructor    *)
(* returned and stays open until close or the end of the with block; the   *)
(* with block leaves it closed however it ends; close on a closed          *)
(* connection changes nothing and raises nothing; and a query method       *)
(* called on a closed connection raises ConnectionError and hands no query *)
(* to an engine.                                                           *)
C27_Lifecycle ==
    [][/\ (ConstructStep /\ "value" \in DOMAIN conn'.last.ret) => IsOpen(conn')
       /\ (IsOpen(conn) /\ ~IsOpen(conn'))
             => conn'.last.op \in {"close", "__exit__"}
       /\ (conn.inside /\ ~conn'.inside)
             => /\ ~IsOpen(conn')
                /\ conn'.disposed = conn'.engines
       /\ (conn' # conn /\ conn'.last.op = "close")
             => /\ ~IsOpen(conn')
                /\ conn'.last.ret = Value("None")
                /\ ~IsOpen(conn) => /\ conn'.obj = conn.obj
                                    /\ conn'.disposed = conn.disposed
       /\ (/\ conn' # conn /\ conn'.last.op \in QueryMethods
           /\ conn.obj # None /\ ~IsOpen(conn))
             => /\ conn'.last.ret = Exception("ConnectionError")
                /\ conn'.queries = conn.queries
                /\ ~IsOpen(conn')]_vars

\* a connection ran a query inside a with block whose body then raised,
\* and a query method called afterwards raised ConnectionError
C27_Witness ==
    /\ conn.left = "raised"
    /\ ~IsOpen(conn)
    /\ conn.queries >= 1
    /\ conn.disposed = 1
    /\ conn.last.op = "get_table_names"
    /\ conn.last.ret = Exception("ConnectionError")

\* the positions of the line separators of a text
Separators(text) == {i \in 1..Len(text) : text[i] = "/"}

\* the k-th smallest member of a set of numbers
Nth(S, k) == CHOOSE x \in S : Cardinality({y \in S : y <= x}) = k

NumLines(text) == Cardinality(Separators(text)) + 1

\* line n of a text: what stands between separator n - 1 and separator n
LineOf(text, n) ==
    SubSeq(text,
           IF n = 1 THEN 1 ELSE Nth(Separators(text), n - 1) + 1,
           IF n = NumLines(text) THEN Len(text)
           ELSE Nth(Separators(text), n) - 1)

\* a line without the blanks before its first and after its last character
\* that is no blank
Trimmed(line) ==
    LET inked == {i \in 1..Len(line) : line[i] # " "}
    IN IF inked = {} THEN <<>>
       ELSE SubSeq(line, CHOOSE i \in inked : \A j \in inked : i <= j,
                         CHOOSE i \in inked : \A j \in inked : i >= j)

\* the line is one the policy of the kind retains
Retained(kind, line) ==
    IF kind = "research_questions"
    THEN /\ Len(Trimmed(line)) >= 2
         /\ Trimmed(line)[1] = "-"
         /\ Trimmed(line)[2] = " "
    ELSE \E k \in Keywords(kind) : Contains(Lower(line), k)

\* the fragment a retained line yields
FragmentOf(kind, line) ==
    IF kind = "research_questions"
    THEN SubSeq(Trimmed(line), 3, Len(Trimmed(line)))
    ELSE Trimmed(line)

\* a is b with some of its elements left out
IsSubsequence(a, b) ==
    \E f \in [1..Len(a) -> 1..Len(b)] :
        /\ \A i, j \in 1..Len(a) : i < j => f[i] < f[j]
        /\ \A i \in 1..Len(a) : a[i] = b[f[i]]

(* C28  Extraction policy: the extracted fragments are, in the order of    *)
(* the text, the lines that contain a keyword of the kind in upper or      *)
(* lower case, each stripped, and for research questions the lines that    *)
(* begin with "- " once stripped, with that marker taken off; and the      *)
(* list put into the response is the extracted list with some fragments    *)
(* left out, the order kept.                                               *)
C28_ExtractionPolicy ==
    /\ calc.pc \in {"extracted", "listed"} =>
          LET kept == {n \in 1..NumLines(calc.text) :
                         Retained(calc.kind, LineOf(calc.text, n))}
          IN /\ Len(calc.extracted) = Cardinality(kept)
             /\ \A n \in kept :
                   calc.extracted[Cardinality({m \in kept : m <= n})]
                     = FragmentOf(calc.kind, LineOf(calc.text, n))
    /\ calc.pc = "listed" => IsSubsequence(calc.valid, calc.extracted)

\* a text of two lines, of which the one with a keyword in upper case and
\* a blank around it was retained and stripped, was extracted and listed
C28_Witness ==
    /\ calc.pc = "listed"
    /\ calc.kind = "analysis_steps"
    /\ NumLines(calc.text) = 2
    /\ Len(calc.extracted) = 1
    /\ Len(calc.extracted[1]) < Len(calc.text) - 2
    /\ ~Contains(calc.extracted[1], <<"t">>)
    /\ calc.valid = calc.extracted

---------------------------------------------------------------------------
(* One caller that puts results which carry a confidence and a            *)
(* schema_valid of its own making, and gets them back.  calc remembers,    *)
(* for every key that has a record, the result the caller handed to the   *)
(* store call that wrote it.                                               *)

\* results as _generate_response assembles them ('response', 'confidence',
\* 'schema_valid'), and as a caller with a verdict of its own passes them
RoundResults ==
    {[response |-> <<"a">>, confidence |-> 100, schema_valid |-> TRUE],
     [response |-> <<"a">>, confidence |-> 95, schema_valid |-> FALSE],
     [response |-> <<"b", "b">>, confidence |-> 90, schema_valid |-> TRUE]}

\* what is remembered of the results given, once the directory is fs
Remembered(given, fs) ==
    [k \in Keys |-> IF k \in DOMAIN fs THEN given[k] ELSE None]

RoundInit ==
    /\ files = [k \in {} |-> None]
    /\ now = 0
    /\ stats = InitStats
    /\ last = Done("init", NoKey, None)
    /\ calls = [gets |-> 0, returned |-> 0]
    /\ req = None
    /\ thr = None
    /\ conn = None
    /\ cfg = None
    /\ calc = [k \in Keys |-> None]

RoundNext ==
    \/ \E prompt \in Prompts, touch \in BOOLEAN :
          /\ Get(prompt, touch)
          /\ calc' = Remembered(calc, files')
          /\ UNCHANGED <<req, thr, conn, cfg>>
    \/ \E prompt \in Prompts, result \in RoundResults :
          /\ Store(prompt, result)
          /\ calc' = Remembered([calc EXCEPT ![KeyOf(prompt)] = result], files')
          /\ UNCHANGED <<req, thr, conn, cfg>>
    \/ Clear /\ calc' = Remembered(calc, files')
             /\ UNCHANGED <<req, thr, conn, cfg>>
    \/ Tick /\ UNCHANGED <<req, thr, calc, conn, cfg>>

RoundSpec == RoundInit /\ [][RoundNext]_vars

(* C30  put/get round trip: a get within max_age of a put that completed   *)
(* with a confidence at or above the threshold, with no other put, clear   *)
(* or eviction of the key in between, returns the payload, the confidence  *)
(* and the schema_valid that were given to the put.                        *)
C30_RoundTrip ==
    [][\A k \in Keys :
          (/\ GetStep(k)
           /\ k \in DOMAIN files
           /\ calc[k] # None
           /\ calc[k].confidence >= confidence_threshold
           /\ ~TooOld(files, k, now))
          => /\ last'.ret # None
             /\ last'.ret.response = calc[k].response
             /\ last'.ret.confidence = calc[k].confidence
             /\ last'.ret.schema_valid = calc[k].schema_valid]_vars

---------------------------------------------------------------------------
(* The caller's side of store: the dictionary a caller hands to store is   *)
(* a Python object passed by reference; calc holds what the caller gave    *)
(* and what the caller holds once store has returned.                      *)

\* the dictionaries handed to store: the ones of Results and RoundResults
PayloadResults == Results \cup RoundResults

\* the caller's dictionary once store(prompt, result) has returned: the
\* assignment result['schema_valid'] = ... of the try block precedes the
\* dump, so it has taken place whether or not the write succeeded
HeldAfterStore(result, prompt) == Stamped(result, prompt)

PayloadInit ==
    /\ files = [k \in {} |-> None]
    /\ now = 0
    /\ stats = InitStats
    /\ last = Done("init", NoKey, None)
    /\ calls = [gets |-> 0, returned |-> 0]
    /\ req = None
    /\ thr = None
    /\ conn = None
    /\ cfg = None
    /\ calc = None

PayloadNext ==
    \/ \E prompt \in Prompts, result \in PayloadResults :
          /\ Store(prompt, result)
          /\ calc' = [given |-> result,
                      held |-> HeldAfterStore(result, prompt)]
          /\ UNCHANGED <<req, thr, conn, cfg>>
    \/ \E prompt \in Prompts, touch \in BOOLEAN :
          Get(prompt, touch) /\ UNCHANGED <<req, thr, calc, conn, cfg>>

PayloadSpec == PayloadInit /\ [][PayloadNext]_vars

(* C31  Store does not alter caller data: once store has returned, with    *)
(* the write done or failed, the dictionary the caller handed in is what   *)
(* it was before the call (same response, confidence, schema_valid and     *)
(* every other field).                                                     *)
C31_CallerPayload ==
    (calc # None /\ last.op \in {"store", "store_failed"}) =>
        calc.held = calc.given

---------------------------------------------------------------------------
(* Vocabulary of the frame of get.                                         *)

\* the content of a stored record: what was written and when
Content(file) == [text |-> file.text, mtime |-> file.mtime]

\* the counters a get is not to touch
OtherCounters(st) ==
    [evictions |-> st.evictions, current_size_mb |-> st.current_size_mb,
     invalidations |-> st.invalidations]

(* C32  get is read-only on content: a get(key), hit or miss, changes the  *)
(* content and the write time of no stored record and neither removes nor  *)
(* changes a record of another key; besides the hits/misses counters it    *)
(* changes only the access time of the entry it returns, and removes only  *)
(* a record of key itself that is not usable.                              *)
C32_GetReadOnly ==
    [][\A k \in Keys :
          GetStep(k) =>
            /\ \A j \in DOMAIN files' :
                  j \in DOMAIN files /\ Content(files'[j]) = Content(files[j])
            /\ \A j \in DOMAIN files \ {k} :
                  j \in DOMAIN files' /\ files'[j] = files[j]
            /\ (k \in DOMAIN files /\ k \notin DOMAIN files') =>
                  ~Usable(files, k, now)
            /\ (k \in DOMAIN files /\ k \in DOMAIN files'
                                   /\ files'[k].atime # files[k].atime) =>
                  last'.ret # None
            /\ OtherCounters(stats') = OtherCounters(stats)
            /\ UNCHANGED now]_vars

(* C33  A fresh write survives its own enforcement: after a put whose      *)
(* written record fits the size budget on its own, the record of the key   *)
(* is in the store once the put, enforcement included, has returned; for a *)
(* new key and for an overwrite alike, the access times of the records     *)
(* being distinct and all before the time of the put.                      *)
C33_FreshWriteSurvives ==
    [][\A p \in Prompts, r \in {d \in Results : Serialisable(d)} :
          (/\ PutStep(p, r)
           /\ StSize(NewFile(NewRecord(p, r), now)) <= max_size_mb
           /\ DistinctAtimes(files)
           /\ \A j \in DOMAIN files \ {KeyOf(p)} : files[j].atime < now)
          => KeyOf(p) \in DOMAIN files']_vars

---------------------------------------------------------------------------
(* AnalysisCache._check_cache_size on its own, for every directory of up   *)
(* to three files and every budget from 0 to MaxBudget: one caller, whose  *)
(* call returns or raises.                                                 *)

\* the largest max_size_mb a store is constructed with here
MaxBudget == 3

\* the files found in the directory: whole records read at any time, and
\* the part-written ones
EvictFiles == LruFiles \cup LeftOverFiles

EvictDirs == UNION {[ks -> EvictFiles] : ks \in SUBSET LruKeys}

EvictInit ==
    /\ files \in EvictDirs
    /\ cfg \in [max_size_mb : 0..MaxBudget]
    /\ now = MaxTime
    /\ stats = InitStats
    /\ last = Done("init", NoKey, None)
    /\ calls = [gets |-> 0, returned |-> 0]
    /\ req = None
    /\ thr = None
    /\ calc = None
    /\ conn = None

\* _check_cache_size(): an IndexError of files.pop(0) leaves the method
\* with the evictions counted so far and current_size_mb not assigned
CheckCacheSizeCall ==
    \E ord \in SortedByAtime(files) :
        LET res == CheckCacheSize(files, ord)
        IN /\ files' = res.files
           /\ stats' = IF res.raised
                       THEN [stats EXCEPT !.evictions = @ + res.evicted]
                       ELSE StatsAfterCheck(stats, res)
           /\ last' = Done("enforce", NoKey,
                           IF res.raised THEN Exception("IndexError")
                                         ELSE None)
           /\ UNCHANGED <<now, calls, req, thr, calc, conn, cfg>>

EvictNext == CheckCacheSizeCall

EvictSpec == EvictInit /\ [][EvictNext]_vars

(* C34  Eviction terminates cleanly: whatever the store holds and whatever *)
(* the budget (0 or more), a single caller's size enforcement returns      *)
(* without raising, having removed no more entries than were present when  *)
(* it started (each counted as one eviction), and it never takes from an   *)
(* emptied candidate list: once every entry is gone the total is 0 and the *)
(* loop has ended.                                                         *)
C34_EvictionTerminates ==
    [][last'.op = "enforce" =>
          /\ last'.ret = None
          /\ DOMAIN files' \subseteq DOMAIN files
          /\ stats'.evictions - stats.evictions =
                Cardinality(DOMAIN files) - Cardinality(DOMAIN files')
          /\ stats'.evictions - stats.evictions <= Cardinality(DOMAIN files)
          /\ TotalSizeMb(files') <= max_size_mb]_vars

\* an enforcement under a budget of 0 evicted all three entries
C34_Witness ==
    /\ last.op = "enforce"
    /\ cfg.max_size_mb = 0
    /\ stats.evictions = 3
    /\ DOMAIN files = {}

\* the record get(k) finds at time t is one get invalidates: it exists and
\* it exceeded max_age or carries a confidence below the threshold
Invalidated(fs, k, t) ==
    k \in DOMAIN fs /\ (TooOld(fs, k, t) \/ LowConfidence(fs, k))

(* C35  Invalidation accounting: the invalidations counter grows by        *)
(* exactly one with each get that invalidates an existing entry (the entry *)
(* exceeded max_age or its confidence is below the threshold), is set to 0 *)
(* by clear, and is changed by no other operation.                         *)
C35_InvalidationAccounting ==
    [][/\ \A k \in Keys :
            GetStep(k) =>
               stats'.invalidations =
                  stats.invalidations +
                     IF Invalidated(files, k, now) THEN 1 ELSE 0
       /\ last'.op = "clear" => stats'.invalidations = 0
       /\ last'.op \notin {"get", "clear"} =>
            stats'.invalidations = stats.invalidations]_vars

---------------------------------------------------------------------------
\* the request was served from the cache through the fast-trust path of
\* lines 77-78
ServedFromCache ==
    /\ req.pc = "Returned"
    /\ req.kind = "analyze_database"
    /\ req.probes = 1
    /\ Trusted(req.cached)
    /\ req.ret = req.cached

\* no step of the analyzer writes a record into the cache directory or
\* replaces one: line 92, the only cache.store of ollama.py, is not reached
AnalyzerWritesNothing ==
    [][req # None =>
         \A k \in DOMAIN files' :
            k \in DOMAIN files /\ files'[k].text = files[k].text
                               /\ files'[k].mtime = files[k].mtime]_vars

\* an analyzer whose caller asks for analyze_database again and again: each
\* request is issued, runs to its return or raise, and is followed by the
\* next one, up to MaxRequests of them
RepeatNext ==
    \/ \E touch \in BOOLEAN : CacheProbe(touch)
    \/ ReturnCached
    \/ ConfidenceMissing
    \/ PreparePrompt
    \/ Finish
    \/ Tick /\ UNCHANGED <<req, thr, calc, conn, cfg>>

RepeatFair ==
    /\ OrchInit
    /\ [][RepeatNext]_vars
    /\ WF_vars(\E touch \in BOOLEAN : CacheProbe(touch))
    /\ WF_vars(ReturnCached \/ ConfidenceMissing \/ PreparePrompt)
    /\ WF_vars(Finish)

---------------------------------------------------------------------------
\* nothing was evicted by any caller so far
NothingEvicted == \A u \in Threads : thr[u].removed = 0

\* this step is the return of a put of caller t whose write and size
\* enforcement completed
PutReturns(t) ==
    thr[t].pc = "finish" /\ thr[t].op = "store" /\ thr'[t].pc = "idle"

\* this step is the end of a get of caller u on key k, by return or raise
GetEnds(u, k) ==
    thr[u].op = "get" /\ thr[u].key = k /\ thr'[u].pc = "idle"

(* C37  A completed put is not undone by a concurrent get: with one caller *)
(* in put(key, ...) and another in get(key), in whatever way their steps   *)
(* interleave and with nothing evicted, the record of key is in the store  *)
(* when the put has returned normally and the get has ended, whichever of  *)
(* the two ends last.                                                      *)
C37_PutNotUndone ==
    [][\A t, u \in Threads :
          /\ (/\ t # u
              /\ PutReturns(t)
              /\ thr[u].pc = "idle"
              /\ last = Done("get", thr[t].key, None)
              /\ NothingEvicted)
             => thr[t].key \in DOMAIN files'
          /\ (/\ t # u
              /\ thr[t].pc = "idle"
              /\ last.op = "store"
              /\ GetEnds(u, last.key)
              /\ NothingEvicted)
             => last.key \in DOMAIN files']_vars

---------------------------------------------------------------------------
(* SchemaValidator.get_table_size and get_sample_size                      *)
(* (src/src/biodb_analyzer/ai/schema_validator.py).  A table has a number  *)
(* of rows; conn.execute either hands the count back or raises (the        *)
(* statement is refused, the table does not exist, the file cannot be      *)
(* opened).  Sample sizes are written in tenths of a row, because          *)
(* table_size * 0.1 is not a whole number of rows.                         *)

\* the tables with up to MaxRows rows are all there
MaxRows == 30

\* z = 2.576, in thousandths
ZScore == 2576

\* p = 0.5, in tenths
Proportion == 5

\* the default margin_error = 0.01, in hundredths
MarginError == 1

\* the 0.1 of table_size * 0.1, in tenths
SampleFraction == 1

\* the 10000 of min(table_size * 0.1, 10000)
SampleCap == 10000

\* the row counts of the tables: the small ones, and large ones on either
\* side of the count whose tenth is the cap
RowCounts == 0..MaxRows \cup {99999, 100000, 100001, 120000}

Min(a, b) == IF a <= b THEN a ELSE b

\* get_table_size: result.scalar(), or 0 when anything in the try raised
GetTableSize(rows, readable) == IF readable THEN rows ELSE 0

\* numerator = z**2 * p * (1 - p), in units of 10^-8
Numerator == ZScore * ZScore * Proportion * (10 - Proportion)

\* int(numerator / denominator) with denominator = margin_error**2 /
\* table_size: the whole part of numerator * table_size / margin_error**2,
\* taken as q * table_size + (r * table_size) div d for numerator = q*d + r
IntSampleSize(table_size, margin_error) ==
    LET d == margin_error * margin_error * 10000
    IN (Numerator \div d) * table_size + ((Numerator % d) * table_size) \div d

\* the sample without the cap of 10000: a tenth of the table at most
GetSampleSizeUncapped(rows, readable) ==
    LET table_size == GetTableSize(rows, readable)
        max_sample == table_size * SampleFraction
    IN IF table_size = 0 THEN 0
       ELSE IF IntSampleSize(table_size, MarginError) <= max_sample \div 10
            THEN 10 * IntSampleSize(table_size, MarginError)
            ELSE max_sample

\* get_sample_size(table_name), in tenths of a row:
\* min(int(sample_size), max_sample), the whole number compared with
\* max_sample / 10 rounded down, which orders them as the numbers are
GetSampleSize(rows, readable) ==
    LET table_size == GetTableSize(rows, readable)
        max_sample == Min(table_size * SampleFraction, SampleCap * 10)
    IN IF table_size = 0 THEN 0
       ELSE IF IntSampleSize(table_size, MarginError) <= max_sample \div 10
            THEN 10 * IntSampleSize(table_size, MarginError)
            ELSE max_sample

SampleInit ==
    /\ files = [k \in {} |-> None]
    /\ now = 0
    /\ stats = InitStats
    /\ last = Done("init", NoKey, None)
    /\ calls = [gets |-> 0, returned |-> 0]
    /\ req = None
    /\ thr = None
    /\ conn = None
    /\ cfg = None
    /\ calc \in [pc : {"start"}, rows : RowCounts, readable : BOOLEAN,
                 ret : {None}]

\* get_table_size(table_name) called on its own (ollama.py:241)
TableSizeCall ==
    /\ calc.pc = "start"
    /\ calc' = [calc EXCEPT !.pc = "sized",
                            !.ret = GetTableSize(calc.rows, calc.readable)]
    /\ UNCHANGED <<files, now, stats, last, calls, req, thr, conn, cfg>>

\* get_sample_size(table_name)
SampleSizeCall ==
    /\ calc.pc = "start"
    /\ calc' = [calc EXCEPT !.pc = "sampled",
                            !.ret = GetSampleSize(calc.rows, calc.readable)]
    /\ UNCHANGED <<files, now, stats, last, calls, req, thr, conn, cfg>>

SampleNext == TableSizeCall \/ SampleSizeCall

SampleSpec == SampleInit /\ [][SampleNext]_vars

====
